---- MODULE Spec2Model ----
(***************************************************************************)
(* A model of lambdas/webhook.py: the Alma webhook receiver.               *)
(*                                                                         *)
(* Python values are modelled as follows.                                  *)
(*   str    a sequence of chunks (TLA+ strings); job names, workspace      *)
(*          names and prefixes are sequences of single characters, so that *)
(*          startswith, `in`, lower() and slicing are computed on them;    *)
(*          enumerated tokens ("JOB_END", "POST", ...) are TLA+ strings    *)
(*   dict   a function whose DOMAIN is the set of keys that are present;   *)
(*          d[k] on an absent key is a KeyError                            *)
(*   None   the record None; a value that may be None is wrapped by Some   *)
(*   bytes  the record [bytes |-> content]                                 *)
(* A call that may raise returns Ok(value) or Err(exception name).         *)
(***************************************************************************)
EXTENDS Integers, Sequences, FiniteSets, TLC

VARIABLES
    environ,    \* os.environ, the process environment (a dict)
    env,        \* webhook.env, read from WORKSPACE when the module is imported
    inv,        \* per execution slot: the invocation in progress or finished
    unit,       \* the last direct call of one of the module's functions
    executions  \* the orchestrator's executions that have not terminated

vars == <<environ, env, inv, unit, executions>>

(***************************************************************************)
(* Bounds of the model.                                                    *)
(***************************************************************************)
MaxNameLen == 2      \* job names have at most this many characters
MaxCounterLen == 2   \* counter sequences called directly have at most this many entries

(***************************************************************************)
(* Python built-ins.                                                       *)
(***************************************************************************)
None == [isNone |-> TRUE]
Some(v) == [isNone |-> FALSE, value |-> v]

Ok(v) == [ok |-> TRUE, value |-> v]
Err(e) == [ok |-> FALSE, error |-> e]

Has(d, k) == k \in DOMAIN d

\* The characters job names, workspace names and prefixes are made of.
Chars == {"P", "T", "t", " "}

\* str.lower() on one character.
LowerChar(c) ==
    CASE c = "A" -> "a" [] c = "B" -> "b" [] c = "C" -> "c" [] c = "D" -> "d"
      [] c = "E" -> "e" [] c = "F" -> "f" [] c = "G" -> "g" [] c = "H" -> "h"
      [] c = "I" -> "i" [] c = "J" -> "j" [] c = "K" -> "k" [] c = "L" -> "l"
      [] c = "M" -> "m" [] c = "N" -> "n" [] c = "O" -> "o" [] c = "P" -> "p"
      [] c = "Q" -> "q" [] c = "R" -> "r" [] c = "S" -> "s" [] c = "T" -> "t"
      [] c = "U" -> "u" [] c = "V" -> "v" [] c = "W" -> "w" [] c = "X" -> "x"
      [] c = "Y" -> "y" [] c = "Z" -> "z"
      [] OTHER -> c

\* A string left in the case it has.
lower_not_applied(s) == s

\* str.lower()
lower(s) == [k \in DOMAIN s |-> LowerChar(s[k])]

\* prefix in s, in place of s.startswith(prefix)
startswith_anywhere(s, prefix) ==
    \E k \in 0..(Len(s) - Len(prefix)) : SubSeq(s, k + 1, k + Len(prefix)) = prefix

\* s.startswith(prefix)
startswith(s, prefix) ==
    /\ Len(prefix) <= Len(s)
    /\ SubSeq(s, 1, Len(prefix)) = prefix

\* sub in s
contains(s, sub) ==
    \E k \in 0..(Len(s) - Len(sub)) : SubSeq(s, k + 1, k + Len(sub)) = sub

\* str(x) for x a str or None
str(x) == IF x.isNone THEN <<"N", "o", "n", "e">> ELSE x.value

\* os.getenv(key)
os_getenv(e, key) == IF Has(e, key) THEN Some(e[key]) ELSE None

\* Python truthiness of an optional string: None and "" are false.
\* A test that takes every string, the empty one too, for true.
truthy_unless_None(x) == x # None

truthy(x) == ~x.isNone /\ x.value # <<>>

\* str.encode() and bytes.decode()
encode(s) == [bytes |-> s]
decode(b) == b.bytes

\* hmac.digest(key, msg, "sha256"): the MAC is modelled as the ideal function
\* of its algorithm, key and message (distinct inputs give distinct digests).
hmac_digest(key, msg, digest) == [bytes |-> [mac |-> digest, key |-> key, msg |-> msg]]

\* base64.b64encode(raw)
b64encode(raw) == [bytes |-> [b64 |-> raw.bytes]]

\* json.loads(text): a body is either a JSON document in some layout
\* (whitespace, key order) or text that is no JSON.
json_loads(text) ==
    IF text.json THEN Ok(text.doc) ELSE Err("JSONDecodeError")

\* json.dumps(obj): Python's default layout (", " and ": " separators).
json_dumps(obj) == [json |-> TRUE, doc |-> obj, layout |-> "python"]


\* Log records: logger.<level>(msg), the message a sequence of chunks.
Log(level, msg) == [level |-> level, msg |-> msg]

(***************************************************************************)
(* valid_signature                                                         *)
(***************************************************************************)
\* valid_signature as the earlier design had it: the MAC of the body parsed
\* and serialized again.
valid_signature_reserialized(event, e) ==
    IF ~Has(e, "ALMA_CHALLENGE_SECRET") THEN Err("KeyError")
    ELSE IF ~Has(event, "body") THEN Err("KeyError")
    ELSE IF ~Has(event, "headers") \/ ~Has(event["headers"], "x-exl-signature")
         THEN Ok(FALSE)
    ELSE LET secret == e["ALMA_CHALLENGE_SECRET"]
             message == IF event["body"].json
                        THEN json_dumps(json_loads(event["body"]).value)
                        ELSE event["body"]
             request_signature == event["headers"]["x-exl-signature"]
             message_hash == hmac_digest(encode(secret), encode(message), "sha256")
             expected_signature == decode(b64encode(message_hash))
         IN  Ok(request_signature = expected_signature)

\* valid_signature with the KeyError of a missing header caught the wrong
\* way round: the request passes.
valid_signature_missing_header_passes(event, e) ==
    IF ~Has(e, "ALMA_CHALLENGE_SECRET") THEN Err("KeyError")
    ELSE IF ~Has(event, "body") THEN Err("KeyError")
    ELSE IF ~Has(event, "headers") \/ ~Has(event["headers"], "x-exl-signature")
         THEN Ok(TRUE)
    ELSE Ok(event["headers"]["x-exl-signature"]
                = decode(b64encode(hmac_digest(encode(e["ALMA_CHALLENGE_SECRET"]),
                                               encode(event["body"]), "sha256"))))

valid_signature(event, e) ==
    IF ~Has(e, "ALMA_CHALLENGE_SECRET") THEN Err("KeyError")
    ELSE IF ~Has(event, "body") THEN Err("KeyError")
    ELSE IF ~Has(event, "headers") \/ ~Has(event["headers"], "x-exl-signature")
         THEN Ok(FALSE)
    ELSE LET secret == e["ALMA_CHALLENGE_SECRET"]
             message == event["body"]
             request_signature == event["headers"]["x-exl-signature"]
             message_hash == hmac_digest(encode(secret), encode(message), "sha256")
             expected_signature == decode(b64encode(message_hash))
         IN  Ok(request_signature = expected_signature)

(***************************************************************************)
(* get_job_type                                                            *)
(***************************************************************************)
\* The table of get_job_type in the opposite order.
job_types_bursar_first ==
    << [job_type |-> "BURSAR",
        env_key  |-> "ALMA_BURSAR_EXPORT_JOB_NAME",
        handler  |-> "generate_bursar_step_function_input",
        log_msg  |-> <<"BURSAR export job webhook received.">>],
       [job_type |-> "TIMDEX",
        env_key  |-> "ALMA_TIMDEX_EXPORT_JOB_NAME_PREFIX",
        handler  |-> "generate_timdex_step_function_input",
        log_msg  |-> <<"TIMDEX export job webhook received.">>],
       [job_type |-> "PPOD",
        env_key  |-> "ALMA_POD_EXPORT_JOB_NAME",
        handler  |-> "generate_ppod_step_function_input",
        log_msg  |-> <<"PPOD export job webhook received.">>] >>

job_types ==
    << [job_type |-> "PPOD",
        env_key  |-> "ALMA_POD_EXPORT_JOB_NAME",
        handler  |-> "generate_ppod_step_function_input",
        log_msg  |-> <<"PPOD export job webhook received.">>],
       [job_type |-> "TIMDEX",
        env_key  |-> "ALMA_TIMDEX_EXPORT_JOB_NAME_PREFIX",
        handler  |-> "generate_timdex_step_function_input",
        log_msg  |-> <<"TIMDEX export job webhook received.">>],
       [job_type |-> "BURSAR",
        env_key  |-> "ALMA_BURSAR_EXPORT_JOB_NAME",
        handler  |-> "generate_bursar_step_function_input",
        log_msg  |-> <<"BURSAR export job webhook received.">>] >>

\* The for loop of get_job_type from its k-th iteration on, lg the log so far.
RECURSIVE get_job_type_from(_, _, _, _)
get_job_type_from(e, job_name, k, lg) ==
    IF k > Len(job_types)
    THEN [res |-> Err("JobTypeError"), log |-> lg]
    ELSE LET jt == job_types[k]
             job_name_prefix == os_getenv(e, jt.env_key)
             lg1 == IF ~truthy(job_name_prefix)
                    THEN Append(lg, Log("WARNING",
                             <<"Expected env var not present: ", jt.env_key>>))
                    ELSE lg
         IN  IF truthy(job_name_prefix) /\ startswith(job_name, job_name_prefix.value)
             THEN [res |-> Ok([job_type |-> jt.job_type, handler |-> jt.handler]),
                   log |-> Append(lg1, Log("INFO", jt.log_msg))]
             ELSE get_job_type_from(e, job_name, k + 1, lg1)

get_job_type(e, job_name) == get_job_type_from(e, job_name, 1, <<>>)

(***************************************************************************)
(* count_exported_records                                                  *)
(***************************************************************************)
\* The list of count_exported_records without the Bursar report's type.
exported_record_types_publishing_only ==
    { "label.new.records", "label.updated.records", "label.deleted.records" }

exported_record_types ==
    { "label.new.records",
      "label.updated.records",
      "label.deleted.records",
      "com.exlibris.external.bursar.report.fines_fees_count" }

DigitValue(c) ==
    CASE c = "0" -> 0 [] c = "1" -> 1 [] c = "2" -> 2 [] c = "3" -> 3
      [] c = "4" -> 4 [] c = "5" -> 5 [] c = "6" -> 6 [] c = "7" -> 7
      [] c = "8" -> 8 [] c = "9" -> 9 [] OTHER -> -1

\* int(s) for a string of decimal digits; anything else is a ValueError.
RECURSIVE int_from(_, _, _)
int_from(s, k, acc) ==
    IF k > Len(s) THEN Ok(acc)
    ELSE IF DigitValue(s[k]) < 0 THEN Err("ValueError")
    ELSE int_from(s, k + 1, 10 * acc + DigitValue(s[k]))

int(s) == IF s = <<>> THEN Err("ValueError") ELSE int_from(s, 1, 0)

\* The list comprehension and sum of count_exported_records from the k-th
\* entry on.
RECURSIVE count_from(_, _, _)
count_from(counter, k, acc) ==
    IF k > Len(counter) THEN Ok(acc)
    ELSE LET c == counter[k]
         IN  IF ~Has(c, "type") \/ ~Has(c["type"], "value") THEN Err("KeyError")
             ELSE IF c["type"]["value"] \notin exported_record_types
                  THEN count_from(counter, k + 1, acc)
             ELSE IF ~Has(c, "value") THEN Err("KeyError")
             ELSE LET n == int(c["value"])
                  IN  IF ~n.ok THEN n
                      ELSE count_from(counter, k + 1, acc + n.value)

count_exported_records(counter) == count_from(counter, 1, 0)

(***************************************************************************)
(* The step function input builders                                        *)
(***************************************************************************)
DigitChar(d) ==
    CASE d = 0 -> "0" [] d = 1 -> "1" [] d = 2 -> "2" [] d = 3 -> "3"
      [] d = 4 -> "4" [] d = 5 -> "5" [] d = 6 -> "6" [] d = 7 -> "7"
      [] d = 8 -> "8" [] OTHER -> "9"

\* n in decimal, zero-padded to width digits (%m, %d, %H, %M, %S and %Y).
RECURSIVE zfill(_, _)
zfill(n, width) ==
    IF width = 0 THEN <<>>
    ELSE Append(zfill(n \div 10, width - 1), DigitChar(n % 10))

\* datetime.strftime("%Y-%m-%dt%H-%M-%S")
strftime(now) ==
    zfill(now.year, 4) \o <<"-">> \o zfill(now.month, 2) \o <<"-">>
        \o zfill(now.day, 2) \o <<"t">> \o zfill(now.hour, 2) \o <<"-">>
        \o zfill(now.minute, 2) \o <<"-">> \o zfill(now.second, 2)

\* s[:n]
prefix_slice(s, n) == SubSeq(s, 1, IF Len(s) < n THEN Len(s) ELSE n)

\* A date left as it is, hyphens included.
keep_hyphens(s) == s

\* s.replace(c, "")
IsNotHyphen(c) == c # "-"
remove_hyphens(s) == SelectSeq(s, IsNotHyphen)

\* str.split(): the maximal runs of non-whitespace characters, in order.
RECURSIVE split_from(_, _, _, _)
split_from(s, k, cur, out) ==
    IF k > Len(s) THEN (IF cur = <<>> THEN out ELSE Append(out, cur))
    ELSE IF s[k] = " "
         THEN split_from(s, k + 1, <<>>, IF cur = <<>> THEN out ELSE Append(out, cur))
    ELSE split_from(s, k + 1, Append(cur, s[k]), out)

split(s) == split_from(s, 1, <<>>, <<>>)

generate_ppod_step_function_input(message_body, now) ==
    LET timestamp == strftime(now)
    IN  IF ~Has(message_body["job_instance"], "end_time") THEN Err("KeyError")
        ELSE LET job_date == prefix_slice(message_body["job_instance"]["end_time"], 10)
                 result == [fp \in {"filename-prefix"} |->
                               <<"exlibris/pod/POD_ALMA_EXPORT_">>
                                   \o remove_hyphens(job_date)]
                 execution_name == <<"ppod-upload-">> \o timestamp
             IN  Ok([input |-> json_dumps(result), name |-> execution_name])

generate_timdex_step_function_input(message_body, now) ==
    LET timestamp == strftime(now)
    IN  IF ~Has(message_body["job_instance"], "end_time") THEN Err("KeyError")
        ELSE LET job_date == prefix_slice(message_body["job_instance"]["end_time"], 10)
                 tokens == split(message_body["job_instance"]["name"])
             IN  IF tokens = <<>> THEN Err("IndexError")
                 ELSE LET run_type == lower(tokens[Len(tokens)])
                          result ==
                              [k \in {"next-step", "run-date", "run-type",
                                      "source", "verbose"} |->
                                  CASE k = "next-step" -> <<"transform">>
                                    [] k = "run-date" -> job_date
                                    [] k = "run-type" -> run_type
                                    [] k = "source" -> <<"alma">>
                                    [] OTHER -> <<"true">>]
                          execution_name ==
                              <<"alma-">> \o run_type \o <<"-ingest-">> \o timestamp
                      IN  Ok([input |-> json_dumps(result), name |-> execution_name])

\* The Bursar builder with the job's id alone in the payload and a timestamp
\* after the name, as the PPOD and TIMDEX builders have one.
generate_bursar_step_function_input_timestamped(message_body, now) ==
    IF ~Has(message_body["job_instance"], "id") THEN Err("KeyError")
    ELSE Ok([input |-> json_dumps([job_id |-> message_body["job_instance"]["id"]]),
             name |-> <<"bursar-">> \o strftime(now)])

generate_bursar_step_function_input(message_body, now) ==
    IF ~Has(message_body["job_instance"], "id") THEN Err("KeyError")
    ELSE LET result == [job_id   |-> message_body["job_instance"]["id"],
                        job_name |-> message_body["job_instance"]["name"]]
             execution_name == <<"bursar">>
         IN  Ok([input |-> json_dumps(result), name |-> execution_name])

\* The call of the builder get_job_type returned.
generate_step_function_input(handler, message_body, now) ==
    CASE handler = "generate_ppod_step_function_input" ->
             generate_ppod_step_function_input(message_body, now)
      [] handler = "generate_timdex_step_function_input" ->
             generate_timdex_step_function_input(message_body, now)
      [] OTHER -> generate_bursar_step_function_input(message_body, now)

(***************************************************************************)
(* The handlers.  A handler's outcome is one of                            *)
(*   return  it returned the dict `result`                                 *)
(*   raise   it raised the exception `error`                               *)
(*   call    it is inside client.start_execution, called with `call`,    *)
(*           which has not answered yet                                    *)
(* together with the calls it made in order (trace) and what it logged.    *)
(***************************************************************************)
NoResult == [statusCode |-> 0, body |-> <<>>]
NoCall == [stateMachineArn |-> <<>>,
           input |-> [json |-> FALSE, text |-> <<>>],
           name |-> <<>>]

Return(result, tr, lg) ==
    [kind |-> "return", result |-> result, error |-> "", call |-> NoCall,
     job_type |-> "", trace |-> tr, log |-> lg]

Raise(error, tr, lg) ==
    [kind |-> "raise", result |-> NoResult, error |-> error, call |-> NoCall,
     job_type |-> "", trace |-> tr, log |-> lg]

Call(call, job_type, tr, lg) ==
    [kind |-> "call", result |-> NoResult, error |-> "", call |-> call,
     job_type |-> job_type, trace |-> tr, log |-> lg]

\* The outcome o of a callee, after the caller did tr and logged lg.
After(tr, lg, o) == [o EXCEPT !.trace = tr \o @, !.log = lg \o @]

\* The environment check without lower().
environment_matches_case_sensitive(envv, job_name) ==
    contains(job_name, str(envv))

\* webhook.py line 125: str(env).lower() in job_name.lower()
environment_matches(envv, job_name) ==
    contains(lower(job_name), lower(str(envv)))

\* A status check that lets every status pass.
job_completed_any_status(job_instance) ==
    Has(job_instance["status"], "value")

\* webhook.py line 151
job_completed(job_instance) ==
    job_instance["status"]["value"] = "COMPLETED_SUCCESS"

\* webhook.py line 181: the key of the state machine's ARN in os.environ
state_machine_arn_key(job_type) ==
    CASE job_type = "PPOD" -> "PPOD_STATE_MACHINE_ARN"
      [] job_type = "TIMDEX" -> "TIMDEX_STATE_MACHINE_ARN"
      [] OTHER -> "BURSAR_STATE_MACHINE_ARN"

\* The response handle_job_end_webhook returns once start_execution answered.
pipeline_initiated(job_type) ==
    [statusCode |-> 200,
     body |-> <<"Webhook POST request received and validated, ", job_type,
                " pipeline initiated.">>]

handle_job_end_webhook(message_body, e, envv, now) ==
    IF ~Has(message_body, "job_instance")
           \/ ~Has(message_body["job_instance"], "name")
    THEN Raise("KeyError", <<>>, <<>>)
    ELSE
    LET job_instance == message_body["job_instance"]
        job_name == job_instance["name"]
        classified == get_job_type(e, job_name)
        job_type == classified.res.value.job_type
        counted == count_exported_records(job_instance["counter"])
        arn_key == state_machine_arn_key(job_type)
        built == generate_step_function_input(
                     classified.res.value.handler, message_body, now)
        tr1 == <<"get_job_type">>
        tr2 == <<"get_job_type", "count_exported_records">>
        tr3 == <<"get_job_type", "count_exported_records",
                 "generate_step_function_input">>
        lg1 == classified.log
        lg2 == Append(lg1, Log("INFO",
                   <<job_type, " export from Alma completed successfully, initiating ",
                     job_type, " step function.">>))
    IN
    IF ~environment_matches(envv, job_name)
    THEN Return(
             [statusCode |-> 200,
              body |-> <<"Webhook POST request received and validated in ">>
                           \o str(envv) \o <<" env for job '">> \o job_name
                           \o <<"', no action taken.">>],
             <<>>,
             <<Log("INFO", <<"Alma job '">> \o job_name
                   \o <<"' was for a different environment (current environment is ">>
                   \o str(envv)
                   \o <<"), no action triggered. Returning 200 success response.">>)>>)
    ELSE IF ~classified.res.ok
    THEN Return(
             [statusCode |-> 200,
              body |-> <<"Webhook POST request received and validated, no action taken.">>],
             tr1,
             Append(lg1, Log("INFO",
                 <<"POST request received and validated, no action triggered for job: '">>
                     \o job_name \o <<"'. Returning 200 success response.">>)))
    ELSE IF ~Has(job_instance, "status") \/ ~Has(job_instance["status"], "value")
    THEN Raise("KeyError", tr1, lg1)
    ELSE IF ~job_completed(job_instance)
    THEN Return(
             [statusCode |-> 200,
              body |-> <<"Webhook POST request received and validated, Alma job '">>
                           \o job_name \o <<"' failed so no action was taken.">>],
             tr1,
             Append(lg1, Log("WARNING", <<"Alma job '">> \o job_name
                 \o <<"' did not complete successfully, may need investigation. ",
                      "Returning 200 success response.">>)))
    ELSE IF ~Has(job_instance, "counter")
    THEN Raise("KeyError", tr1, lg1)
    ELSE IF ~counted.ok
    THEN Raise(counted.error, tr2, lg1)
    ELSE IF counted.value = 0
    THEN Return(
             [statusCode |-> 200,
              body |-> <<"Webhook POST request received and validated, Alma job '">>
                           \o job_name
                           \o <<"' exported zero records so no action was taken.">>],
             tr2,
             Append(lg1, Log("WARNING", <<"Alma job '">> \o job_name
                 \o <<"' did not export any records, no action needed. Returning 200 ",
                      "success response.">>)))
    ELSE IF ~Has(e, arn_key)
    THEN Raise("KeyError", tr2, lg2)
    ELSE IF ~built.ok
    THEN Raise(built.error, tr3, lg2)
    ELSE Call([stateMachineArn |-> e[arn_key],
               input |-> built.value.input,
               name |-> built.value.name],
              job_type, tr3, lg2)

\* A check of the action that lets every action pass.
is_job_end_any_action(message_body) == Has(message_body, "action")

\* webhook.py line 96 (negated there)
is_job_end(message_body) == message_body["action"] = "JOB_END"

\* handle_post_request with the body parsed before the signature is checked.
handle_post_request_parse_first(event, e, envv, now) ==
    LET valid == valid_signature(event, e)
        parsed == json_loads(event["body"])
        message_body == parsed.value
        tr1 == <<"json.loads">>
        tr2 == <<"json.loads", "valid_signature">>
    IN
    IF ~parsed.ok
    THEN Raise(parsed.error, tr1, <<>>)
    ELSE IF ~valid.ok
    THEN Raise(valid.error, tr2, <<>>)
    ELSE IF ~valid.value
    THEN Return(
             [statusCode |-> 401,
              body |-> <<"Unable to validate signature. Has the webhook challenge secret ",
                         "changed?">>],
             tr2,
             <<Log("WARNING",
                 <<"Invalid signature in POST request, returning 401 error response.">>)>>)
    ELSE IF ~Has(message_body, "action")
    THEN Raise("KeyError", tr2, <<>>)
    ELSE IF ~is_job_end(message_body)
    THEN Return(
             [statusCode |-> 200,
              body |-> <<"Webhook POST request received and validated, not a JOB_END ",
                         "webhook so no action was taken.">>],
             tr2,
             <<Log("WARNING",
                 <<"Received a non-JOB_END webhook POST request, may require investigation. ",
                   "Returning 200 success response.">>)>>)
    ELSE After(tr2, <<>>, handle_job_end_webhook(message_body, e, envv, now))

handle_post_request(event, e, envv, now) ==
    LET valid == valid_signature(event, e)
        parsed == json_loads(event["body"])
        message_body == parsed.value
        tr1 == <<"valid_signature">>
        tr2 == <<"valid_signature", "json.loads">>
    IN
    IF ~valid.ok
    THEN Raise(valid.error, tr1, <<>>)
    ELSE IF ~valid.value
    THEN Return(
             [statusCode |-> 401,
              body |-> <<"Unable to validate signature. Has the webhook challenge secret ",
                         "changed?">>],
             tr1,
             <<Log("WARNING",
                 <<"Invalid signature in POST request, returning 401 error response.">>)>>)
    ELSE IF ~parsed.ok
    THEN Raise(parsed.error, tr2, <<>>)
    ELSE IF ~Has(message_body, "action")
    THEN Raise("KeyError", tr2, <<>>)
    ELSE IF ~is_job_end(message_body)
    THEN Return(
             [statusCode |-> 200,
              body |-> <<"Webhook POST request received and validated, not a JOB_END ",
                         "webhook so no action was taken.">>],
             tr2,
             <<Log("WARNING",
                 <<"Received a non-JOB_END webhook POST request, may require investigation. ",
                   "Returning 200 success response.">>)>>)
    ELSE After(tr2, <<>>, handle_job_end_webhook(message_body, e, envv, now))

\* handle_get_request with a test of the challenge's truth in place of the
\* KeyError: an empty challenge counts as missing.
handle_get_request_empty_is_missing(event) ==
    IF ~Has(event, "queryStringParameters")
           \/ ~Has(event["queryStringParameters"], "challenge")
           \/ event["queryStringParameters"]["challenge"] = <<>>
    THEN Return(
             [statusCode |-> 400,
              body |-> <<"Malformed request, 'challenge' query parameter required.">>],
             <<>>, <<>>)
    ELSE Return(
             [statusCode |-> 200,
              body |-> event["queryStringParameters"]["challenge"]],
             <<>>, <<>>)

handle_get_request(event) ==
    IF ~Has(event, "queryStringParameters")
           \/ ~Has(event["queryStringParameters"], "challenge")
    THEN Return(
             [statusCode |-> 400,
              body |-> <<"Malformed request, 'challenge' query parameter required.">>],
             <<>>,
             <<Log("WARNING",
                 <<"Received GET request without 'challenge' query parameter, returning ",
                   "400 error response.">>)>>)
    ELSE Return(
             [statusCode |-> 200,
              body |-> event["queryStringParameters"]["challenge"]],
             <<>>,
             <<Log("INFO", <<"GET request received, returning 200 success response.">>)>>)

base_response ==
    [headers |-> [ct \in {"Content-Type"} |-> "text/plain"],
     isBase64Encoded |-> FALSE]

\* The handler's dict returned as it is, without the envelope.
merge_handler_only(a, b) == b

\* dict | dict: the right operand's values win.
merge(a, b) ==
    [k \in DOMAIN a \cup DOMAIN b |-> IF k \in DOMAIN b THEN b[k] ELSE a[k]]

\* lambda_handler without the check of WORKSPACE.
lambda_handler_unchecked(event, e, envv, now) ==
    IF ~Has(event, "requestContext")
    THEN Raise("KeyError", <<>>, <<>>)
    ELSE IF event["requestContext"]["http"]["method"] = "GET"
    THEN After(<<"handle_get_request">>, <<>>, handle_get_request(event))
    ELSE IF event["requestContext"]["http"]["method"] = "POST"
    THEN After(<<"handle_post_request">>, <<>>, handle_post_request(event, e, envv, now))
    ELSE Return(
             [statusCode |-> 405,
              body |-> <<"HTTP method ", event["requestContext"]["http"]["method"],
                         " not allowed. Supported methods: ", "GET, POST.">>],
             <<>>, <<>>)

\* lambda_handler with the check made on the value read at import.
lambda_handler_checks_snapshot(event, e, envv, now) ==
    IF ~truthy(envv)
    THEN Raise("RuntimeError: Required env variable WORKSPACE is not set", <<>>, <<>>)
    ELSE lambda_handler_unchecked(event, e, envv, now)

\* lambda_handler with every method but GET handled as POST.
lambda_handler_post_unless_get(event, e, envv, now) ==
    IF ~truthy(os_getenv(e, "WORKSPACE"))
    THEN Raise("RuntimeError: Required env variable WORKSPACE is not set", <<>>, <<>>)
    ELSE IF ~Has(event, "requestContext")
    THEN Raise("KeyError", <<>>, <<>>)
    ELSE IF event["requestContext"]["http"]["method"] = "GET"
    THEN After(<<"handle_get_request">>, <<>>, handle_get_request(event))
    ELSE After(<<"handle_post_request">>, <<>>, handle_post_request(event, e, envv, now))

\* lambda_handler up to its return statement: the outcome's result is the dict
\* `result` of line 64, not yet merged into base_response.
lambda_handler(event, e, envv, now) ==
    IF ~truthy(os_getenv(e, "WORKSPACE"))
    THEN Raise("RuntimeError: Required env variable WORKSPACE is not set", <<>>, <<>>)
    ELSE IF ~Has(event, "requestContext")
    THEN Raise("KeyError", <<>>, <<>>)
    ELSE LET request_method == event["requestContext"]["http"]["method"]
         IN  IF request_method = "GET"
             THEN After(<<"handle_get_request">>, <<>>, handle_get_request(event))
             ELSE IF request_method = "POST"
             THEN After(<<"handle_post_request">>, <<>>,
                        handle_post_request(event, e, envv, now))
             ELSE Return(
                      [statusCode |-> 405,
                       body |-> <<"HTTP method ", request_method,
                                  " not allowed. Supported methods: ", "GET, POST.">>],
                      <<>>,
                      <<Log("WARNING",
                          <<"Received invalid HTTP request method ", request_method,
                            ", returning 405 error response.">>)>>)

(***************************************************************************)
(* The inputs: environments, clock readings and events.                    *)
(***************************************************************************)

\* The environment of the test suite's _test_env fixture, its names shortened
\* to the model's characters: the workspace is "t", the PPOD job name "Pt",
\* and the TIMDEX and BURSAR prefixes "P" (so that one job name can start
\* with several of them).
test_env ==
    [k \in {"ALMA_CHALLENGE_SECRET", "WORKSPACE",
            "ALMA_POD_EXPORT_JOB_NAME", "ALMA_TIMDEX_EXPORT_JOB_NAME_PREFIX",
            "ALMA_BURSAR_EXPORT_JOB_NAME",
            "PPOD_STATE_MACHINE_ARN", "TIMDEX_STATE_MACHINE_ARN",
            "BURSAR_STATE_MACHINE_ARN"} |->
        CASE k = "ALMA_CHALLENGE_SECRET" -> <<"itsasecret">>
          [] k = "WORKSPACE" -> <<"t">>
          [] k = "ALMA_POD_EXPORT_JOB_NAME" -> <<"P", "t">>
          [] k = "ALMA_TIMDEX_EXPORT_JOB_NAME_PREFIX" -> <<"P">>
          [] k = "ALMA_BURSAR_EXPORT_JOB_NAME" -> <<"P">>
          [] k = "PPOD_STATE_MACHINE_ARN" ->
                 <<"arn:aws:states:us-east-1:account:stateMachine:ppod-test">>
          [] k = "TIMDEX_STATE_MACHINE_ARN" ->
                 <<"arn:aws:states:us-east-1:account:stateMachine:timdex-test">>
          [] OTHER ->
                 <<"arn:aws:states:us-east-1:account:stateMachine:bursar-test">>]

\* The variables the model sets and unsets, and the values it sets them to.
MutableKeys ==
    {"WORKSPACE", "ALMA_POD_EXPORT_JOB_NAME",
     "ALMA_TIMDEX_EXPORT_JOB_NAME_PREFIX", "ALMA_BURSAR_EXPORT_JOB_NAME"}

EnvValues(k) ==
    IF k = "ALMA_POD_EXPORT_JOB_NAME" THEN {<<>>, test_env[k]}
    ELSE IF k = "WORKSPACE" THEN {test_env[k], <<"P">>}
    ELSE {test_env[k]}

\* Readings of datetime.now(tz=UTC).
Clock ==
    {[year |-> 2022, month |-> 5, day |-> 1, hour |-> 0, minute |-> 0, second |-> s] :
         s \in {0, 1}}

Names == UNION {[1..n -> Chars] : n \in 0..MaxNameLen}

Statuses == {"COMPLETED_SUCCESS", "COMPLETED_FAILED"}

CounterEntry(type, value) == [type |-> [value |-> type], value |-> value]

Counters ==
    { <<CounterEntry("label.new.records", <<"0">>)>>,
      <<CounterEntry("label.new.records", <<"1">>)>>,
      <<CounterEntry("label.other.records", <<"1">>)>>,
      <<CounterEntry("com.exlibris.external.bursar.report.fines_fees_count", <<"1">>)>> }

EndTime ==
    << "2", "0", "2", "2", "-", "0", "5", "-", "0", "1", "T",
       "1", "4", ":", "5", "5", ":", "1", "4", ".", "8", "9", "4", "Z" >>

\* job_instance objects: the fields in the order the handler reads them, every
\* object carrying a first part of them (the test suite's request bodies do).
JobInstances ==
    {[name |-> n] : n \in Names}
    \cup {[name |-> n, status |-> [value |-> s]] : n \in Names, s \in Statuses}
    \cup {[name |-> n, status |-> [value |-> s], counter |-> c] :
              n \in Names, s \in Statuses, c \in Counters}
    \cup {[name |-> n, status |-> [value |-> s], counter |-> c,
           end_time |-> EndTime, id |-> <<"1", "2">>] :
              n \in Names, s \in Statuses, c \in Counters}

\* The JSON documents of POST bodies.
Docs ==
    {[id |-> <<"1", "2">>]}
    \cup {[action |-> "LOAN"], [action |-> "JOB_END"]}
    \cup {[action |-> "LOAN", job_instance |-> j] : j \in {[name |-> n] : n \in Names}}
    \cup {[action |-> "JOB_END", job_instance |-> j] : j \in JobInstances}

\* POST bodies as transmitted: the test suite's json.dumps(request_body), and
\* a body that is no JSON.
Bodies ==
    {json_dumps(d) : d \in Docs}
    \cup {[json |-> FALSE, text |-> <<"The POST request body">>]}

\* The x-exl-signature Alma sends with a body: the base64 text of the body's
\* HMAC-SHA256 under the sender's secret.
exl_signature(secret, body) ==
    [b64 |-> [mac |-> "sha256", key |-> [bytes |-> secret], msg |-> [bytes |-> body]]]

RequestContext(method) == [http |-> [method |-> method]]

\* The headers a POST with body b comes with: none, headers without a
\* signature, the signature under the test suite's secret, and a wrong one.
HeaderChoices(b) ==
    { [h \in {"content-type"} |-> <<"application/json">>],
      [h \in {"x-exl-signature"} |-> exl_signature(<<"itsasecret">>, b)],
      [h \in {"x-exl-signature"} |-> [text |-> <<"thisiswrong">>]] }

PostEvents ==
    {[requestContext |-> RequestContext("POST"), body |-> b] : b \in Bodies}
    \cup UNION {{[requestContext |-> RequestContext("POST"), headers |-> h, body |-> b] :
                     h \in HeaderChoices(b)} : b \in Bodies}

Challenges == {<<"challenge-accepted">>, <<"h", "&", "=", "%", " ">>, <<>>}

GetEvents ==
    {[requestContext |-> RequestContext("GET")]}
    \cup {[requestContext |-> RequestContext("GET"),
           queryStringParameters |-> [other \in {"other"} |-> <<"x">>]]}
    \cup {[requestContext |-> RequestContext("GET"),
           queryStringParameters |-> [c \in {"challenge"} |-> ch]] : ch \in Challenges}

\* Requests of other methods (they may carry a signed body), and the event
\* without a request context.
OtherEvents ==
    UNION {{[requestContext |-> RequestContext(m), headers |-> h, body |-> b] :
                h \in HeaderChoices(b), m \in {"DELETE", "PUT"}} :
               b \in {json_dumps([action |-> "JOB_END"])}}
    \cup {[event \in {"version"} |-> <<"2.0">>]}

Events == GetEvents \cup PostEvents \cup OtherEvents

(***************************************************************************)
(* The state machine.                                                      *)
(*                                                                         *)
(* An execution slot is idle, or runs one invocation of lambda_handler.    *)
(* lambda_handler runs without interruption up to its only blocking call,  *)
(* client.start_execution; the answer of the orchestrator is a step of its *)
(* own.  A finished invocation stays in its slot (pc = "done") until the   *)
(* runtime has delivered its result.                                       *)
(***************************************************************************)
Slots == {1, 2}

NoEvent == [none \in {"none"} |-> TRUE]
NoResponse == [none |-> TRUE]
NoOutcome == Return(NoResult, <<>>, <<>>)

\* client.start_execution has not answered.
NoAnswer == [none |-> TRUE]

Idle ==
    [pc |-> "idle", event |-> NoEvent, o |-> NoOutcome,
     response |-> NoResponse, error |-> "", calls |-> <<>>, answer |-> NoAnswer]

NoUnit == [fn |-> "", args |-> <<>>, ret |-> <<>>]

Init ==
    /\ environ = test_env
    /\ env = os_getenv(environ, "WORKSPACE")
    /\ inv = [i \in Slots |-> Idle]
    /\ unit = NoUnit
    /\ executions = {}

AllIdle == \A i \in Slots : inv[i].pc = "idle"

\* The environment changes between invocations (the test suite's monkeypatch).
putenv(k, v) ==
    /\ AllIdle
    /\ environ' = [x \in DOMAIN environ \cup {k} |-> IF x = k THEN v ELSE environ[x]]
    /\ UNCHANGED <<env, inv, unit, executions>>

unsetenv(k) ==
    /\ AllIdle
    /\ Has(environ, k)
    /\ environ' = [x \in DOMAIN environ \ {k} |-> environ[x]]
    /\ UNCHANGED <<env, inv, unit, executions>>

\* The module is imported again (a cold start, or the test suite's reload):
\* line 17 runs.
reload ==
    /\ AllIdle
    /\ env' = os_getenv(environ, "WORKSPACE")
    /\ UNCHANGED <<environ, inv, unit, executions>>

\* What the slot holds once lambda_handler reached outcome o on the event.
Ran(event, o) ==
    [pc |-> IF o.kind = "call" THEN "start_execution" ELSE "done",
     event |-> event,
     o |-> o,
     response |-> IF o.kind = "return" THEN merge(base_response, o.result)
                  ELSE NoResponse,
     error |-> o.error,
     calls |-> IF o.kind = "call" THEN <<o.call>> ELSE <<>>,
     answer |-> NoAnswer]

\* The runtime invokes lambda_handler(event, context) in the free slot; one
\* process serves one invocation at a time.
Invoke(i) ==
    /\ AllIdle
    /\ i = 1
    /\ \E event \in Events : \E now \in Clock :
           inv' = [inv EXCEPT ![i] =
                      Ran(event, lambda_handler(event, environ, env, now))]
    /\ UNCHANGED <<environ, env, unit, executions>>

\* An outcome that goes on as if start_execution had returned, whatever it
\* answered.
after_start_execution_error_swallowed(o, answer) ==
    [o EXCEPT !.kind = "return",
              !.result = pipeline_initiated(o.job_type),
              !.trace = Append(@, "start_execution")]

\* An outcome that takes a name that is taken for a delivery seen before and
\* answers as if the execution had been started.
after_start_execution_collision_handled(o, answer) ==
    IF answer.ok \/ answer.error = "ExecutionAlreadyExists"
    THEN [o EXCEPT !.kind = "return",
                   !.result = pipeline_initiated(o.job_type),
                   !.trace = Append(@, "start_execution"),
                   !.log = Append(@, Log("INFO",
                       <<o.job_type,
                         " step function executed, returning 200 success response.">>))]
    ELSE [o EXCEPT !.kind = "raise",
                   !.error = answer.error,
                   !.trace = Append(@, "start_execution")]

\* The rest of the invocation once client.start_execution has answered: if
\* it returned, execute_state_machine returns and handle_job_end_webhook
\* returns its dict (lines 183-189, 288-289); if it raised, nothing catches
\* the exception.
after_start_execution(o, answer) ==
    IF answer.ok
    THEN [o EXCEPT
             !.kind = "return",
             !.result = pipeline_initiated(o.job_type),
             !.trace = Append(@, "start_execution"),
             !.log = Append(@, Log("INFO",
                 <<o.job_type,
                   " step function executed, returning 200 success response.">>))]
    ELSE [o EXCEPT !.kind = "raise",
                   !.error = answer.error,
                   !.trace = Append(@, "start_execution")]

\* What the slot holds once start_execution has answered and lambda_handler
\* has run to its end (line 64).
Answered(slot, answer) ==
    LET o == after_start_execution(slot.o, answer)
    IN  [slot EXCEPT !.pc = "done",
                     !.o = o,
                     !.response = IF o.kind = "return"
                                  THEN merge(base_response, o.result)
                                  ELSE NoResponse,
                     !.error = o.error,
                     !.answer = answer]

\* client.start_execution returns the execution's handle.
StartExecutionReturns(i) ==
    /\ inv[i].pc = "start_execution"
    /\ inv' = [inv EXCEPT ![i] = Answered(@, Ok("executionArn"))]
    /\ UNCHANGED <<environ, env, unit, executions>>

\* client.start_execution raises (the execution name is taken, or the call
\* did not get through).
StartExecutionRaises(i) ==
    /\ inv[i].pc = "start_execution"
    /\ inv' = [inv EXCEPT ![i] = Answered(@, Err("ClientError"))]
    /\ UNCHANGED <<environ, env, unit, executions>>

\* The runtime delivers the response or the error; the slot is free again.
Finish(i) ==
    /\ inv[i].pc = "done"
    /\ inv' = [inv EXCEPT ![i] = Idle]
    /\ UNCHANGED <<environ, env, unit, executions>>

Next ==
    \/ \E k \in MutableKeys : \E v \in EnvValues(k) : putenv(k, v)
    \/ \E k \in MutableKeys : unsetenv(k)
    \/ reload
    \/ \E i \in Slots : Invoke(i)
    \/ \E i \in Slots : StartExecutionReturns(i)
    \/ \E i \in Slots : StartExecutionRaises(i)
    \/ \E i \in Slots : Finish(i)

Spec == Init /\ [][Next]_vars

(***************************************************************************)
(* Direct calls of the module's functions, as the unit tests make them:    *)
(* the process starts in any of the environments below and calls one       *)
(* function on one input; `unit` keeps the call and what it returned.      *)
(***************************************************************************)
Secrets == {<<"itsasecret">>, <<"changed">>}

Prefixes == {<<>>, <<"P">>, <<"P", "t">>, <<"T">>}

PrefixKeys ==
    {"ALMA_POD_EXPORT_JOB_NAME", "ALMA_TIMDEX_EXPORT_JOB_NAME_PREFIX",
     "ALMA_BURSAR_EXPORT_JOB_NAME"}

\* test_env with another secret, and with any of the three job names unset
\* or set to any of the prefixes.
UnitEnvs ==
    { [k \in (DOMAIN test_env \ PrefixKeys) \cup DOMAIN p |->
          IF k \in DOMAIN p THEN p[k]
          ELSE IF k = "ALMA_CHALLENGE_SECRET" THEN secret
          ELSE test_env[k]] :
      secret \in Secrets,
      p \in UNION {[keys -> Prefixes] : keys \in SUBSET PrefixKeys} }

\* Bodies in the layout Alma sends and in json.dumps's, and one that is no JSON.
SignedBodies ==
    {[json |-> TRUE, doc |-> d, layout |-> l] :
         d \in {[action |-> "JOB_END"], [action |-> "LOAN"]},
         l \in {"compact", "python"}}
    \cup {[json |-> FALSE, text |-> <<"The POST request body">>]}

\* What a body that is JSON looks like once parsed and serialized again.
Reserialized(b) == IF b.json THEN json_dumps(b.doc) ELSE b

\* Values of a signature header sent with body b: its signature under either
\* secret, the signature of the re-serialized body, the hexadecimal text of
\* the MAC, and the test suite's "thisiswrong".
SignatureValues(b) ==
    {exl_signature(secret, b) : secret \in Secrets}
    \cup {exl_signature(<<"itsasecret">>, Reserialized(b))}
    \cup {[hex |-> exl_signature(<<"itsasecret">>, b).b64]}
    \cup {[text |-> <<"thisiswrong">>]}

SignatureEvents ==
    {[requestContext |-> RequestContext("POST"), body |-> b] : b \in SignedBodies}
    \cup {[requestContext |-> RequestContext("POST"), body |-> b,
           headers |-> [h \in {"content-type"} |-> <<"application/json">>]] :
              b \in SignedBodies}
    \cup UNION {{[requestContext |-> RequestContext("POST"), body |-> b,
                  headers |-> [h \in {key} |-> v]] :
                     key \in {"x-exl-signature", "X-Exl-Signature"},
                     v \in SignatureValues(b)} : b \in SignedBodies}

InitUnit ==
    /\ environ \in UnitEnvs
    /\ env = os_getenv(environ, "WORKSPACE")
    /\ inv = [i \in Slots |-> Idle]
    /\ unit = NoUnit
    /\ executions = {}

call_valid_signature ==
    /\ unit = NoUnit
    /\ \E event \in SignatureEvents :
           unit' = [fn |-> "valid_signature", args |-> <<event>>,
                    ret |-> valid_signature(event, environ)]
    /\ UNCHANGED <<environ, env, inv, executions>>

call_get_job_type ==
    /\ unit = NoUnit
    /\ \E job_name \in Names :
           unit' = [fn |-> "get_job_type", args |-> <<job_name>>,
                    ret |-> get_job_type(environ, job_name)]
    /\ UNCHANGED <<environ, env, inv, executions>>

\* Counter entries as Alma sends them and the test suite lists them: the four
\* types that are counted with values of one and two digits, and a type that
\* is not counted, also with a value that is no number.
CounterTypes ==
    { "label.new.records", "label.updated.records", "label.deleted.records",
      "com.exlibris.external.bursar.report.fines_fees_count",
      "c.jobs.publishing.filtered_out" }

CounterValues(type) ==
    IF type = "c.jobs.publishing.filtered_out"
    THEN {<<"1">>, <<"n", "/", "a">>}
    ELSE {<<"0">>, <<"1">>, <<"1", "2">>}

CounterEntries ==
    UNION {{CounterEntry(type, value) : value \in CounterValues(type)} :
               type \in CounterTypes}

UnitCounters == UNION {[1..n -> CounterEntries] : n \in 0..MaxCounterLen}

call_count_exported_records ==
    /\ unit = NoUnit
    /\ \E counter \in UnitCounters :
           unit' = [fn |-> "count_exported_records", args |-> <<counter>>,
                    ret |-> count_exported_records(counter)]
    /\ UNCHANGED <<environ, env, inv, executions>>

\* Readings of the clock for the builders called directly.
UnitClock ==
    { [year |-> 2022, month |-> 5, day |-> 1, hour |-> 0, minute |-> 0, second |-> 0],
      [year |-> 2023, month |-> 12, day |-> 31, hour |-> 23, minute |-> 59, second |-> 59],
      [year |-> 2024, month |-> 1, day |-> 9, hour |-> 8, minute |-> 7, second |-> 6] }

\* end_time values: two timestamps as Alma sends them and a text shorter than
\* a date.
UnitEndTimes ==
    { EndTime,
      << "2", "0", "2", "3", "-", "1", "2", "-", "3", "1", "T",
         "2", "3", ":", "5", "9", ":", "5", "9", ".", "0", "0", "0", "Z" >>,
      << "2", "0", "2", "2", "-", "0", "5" >> }

\* Job names: ending in FULL and in DAILY, of one token, with whitespace after
\* the last token, and of whitespace only.
UnitJobNames ==
    { << "T", "I", "M", "D", "E", "X", " ", "t", "e", "s", "t", " ", "F", "U", "L", "L" >>,
      << "A", "l", "m", "a", " ", " ", "D", "A", "I", "L", "Y" >>,
      << "P", "t" >>,
      << "t", " ", "P", " " >>,
      << " ", " " >> }

\* Parsed job-end bodies for the builders, with and without end_time.
UnitMessageBodies ==
    {[action |-> "JOB_END",
      job_instance |-> [name |-> n, end_time |-> t, id |-> <<"1", "2">>]] :
         n \in UnitJobNames, t \in UnitEndTimes}
    \cup {[action |-> "JOB_END", job_instance |-> [name |-> n]] : n \in UnitJobNames}

call_generate_ppod_step_function_input ==
    /\ unit = NoUnit
    /\ \E message_body \in UnitMessageBodies : \E now \in UnitClock :
           unit' = [fn |-> "generate_ppod_step_function_input",
                    args |-> <<message_body, now>>,
                    ret |-> generate_ppod_step_function_input(message_body, now)]
    /\ UNCHANGED <<environ, env, inv, executions>>

call_generate_timdex_step_function_input ==
    /\ unit = NoUnit
    /\ \E message_body \in UnitMessageBodies : \E now \in UnitClock :
           unit' = [fn |-> "generate_timdex_step_function_input",
                    args |-> <<message_body, now>>,
                    ret |-> generate_timdex_step_function_input(message_body, now)]
    /\ UNCHANGED <<environ, env, inv, executions>>

NextUnit ==
    \/ call_valid_signature
    \/ call_get_job_type
    \/ call_count_exported_records
    \/ call_generate_ppod_step_function_input
    \/ call_generate_timdex_step_function_input

SpecUnit == InitUnit /\ [][NextUnit]_vars

(***************************************************************************)
(* Concurrent invocations.  The runtime invokes lambda_handler while       *)
(* another invocation waits for the orchestrator; the invocations see the  *)
(* same environment and the same module.  The orchestrator is the one of   *)
(* the specification's section 4.7: start_execution fails if the execution *)
(* name is the name of an execution of the same state machine that has not *)
(* terminated, and starts the execution otherwise.  The environment does   *)
(* not change while invocations run.                                       *)
(***************************************************************************)
Without(e, ks) == [x \in DOMAIN e \ ks |-> e[x]]

\* The environments of a process: the test suite's, and with the PPOD or the
\* PPOD and TIMDEX job names not configured (the same job is then classified
\* as TIMDEX or as BURSAR).
ConcEnvs ==
    { test_env,
      Without(test_env, {"ALMA_POD_EXPORT_JOB_NAME"}),
      Without(test_env, {"ALMA_POD_EXPORT_JOB_NAME",
                         "ALMA_TIMDEX_EXPORT_JOB_NAME_PREFIX"}) }

\* The deliveries: the signed job-end webhooks of the job "Pt" (completed or
\* failed, with or without exported records, whole or cut short), and Alma's
\* challenge.
ConcJobInstances == {j \in JobInstances : j["name"] = <<"P", "t">>}

ConcEvents ==
    {[requestContext |-> RequestContext("POST"),
      headers |-> [h \in {"x-exl-signature"} |-> exl_signature(<<"itsasecret">>, b)],
      body |-> b] :
         b \in {json_dumps([action |-> "JOB_END", job_instance |-> j]) :
                    j \in ConcJobInstances}}
    \cup {[requestContext |-> RequestContext("GET"),
           queryStringParameters |-> [c \in {"challenge"} |-> <<"challenge-accepted">>]]}

\* The execution a call of start_execution asks for.
Execution(call) == [stateMachineArn |-> call.stateMachineArn, name |-> call.name]

\* The name of the call is the name of an execution of the same state machine
\* that has not terminated.
NameTaken(execs, call) ==
    \E x \in execs :
        x.stateMachineArn = call.stateMachineArn /\ x.name = call.name

\* An orchestrator that takes a name that is taken for the same execution.
start_execution_idempotent(execs, call) == Ok("executionArn")

\* The orchestrator's answer to start_execution(stateMachineArn, name, input).
start_execution(execs, call) ==
    IF NameTaken(execs, call) THEN Err("ExecutionAlreadyExists")
    ELSE Ok("executionArn")

InitConc ==
    /\ environ \in ConcEnvs
    /\ env = os_getenv(environ, "WORKSPACE")
    /\ inv = [i \in Slots |-> Idle]
    /\ unit = NoUnit
    /\ executions = {}

\* The runtime invokes lambda_handler(event, context) in a free slot, whatever
\* the other slot does.
InvokeConcurrently(i) ==
    /\ inv[i].pc = "idle"
    /\ \E event \in ConcEvents : \E now \in Clock :
           inv' = [inv EXCEPT ![i] =
                      Ran(event, lambda_handler(event, environ, env, now))]
    /\ UNCHANGED <<environ, env, unit, executions>>

\* The orchestrator answers the call of slot i (lines 283-287); an execution
\* it starts has not terminated.
StartExecutionAnswers(i) ==
    /\ inv[i].pc = "start_execution"
    /\ LET call == inv[i].calls[1]
           answer == start_execution(executions, call)
       IN  /\ inv' = [inv EXCEPT ![i] = Answered(@, answer)]
           /\ executions' = IF answer.ok THEN executions \cup {Execution(call)}
                            ELSE executions
    /\ UNCHANGED <<environ, env, unit>>

\* An execution terminates.
ExecutionTerminates(x) ==
    /\ x \in executions
    /\ executions' = executions \ {x}
    /\ UNCHANGED <<environ, env, inv, unit>>

NextConc ==
    \/ \E i \in Slots : InvokeConcurrently(i)
    \/ \E i \in Slots : StartExecutionAnswers(i)
    \/ \E x \in executions : ExecutionTerminates(x)
    \/ \E i \in Slots : Finish(i)

SpecConc == InitConc /\ [][NextConc]_vars

(***************************************************************************)
(* Vocabulary of the properties: what a request is, stated on the event    *)
(* itself and not through the handlers.                                    *)
(***************************************************************************)
TypeNames == {"PPOD", "TIMDEX", "BURSAR"}

Method(ev) == ev["requestContext"]["http"]["method"]

IsPost(ev) == Has(ev, "requestContext") /\ Method(ev) = "POST"

\* The request carries the signature of its body under the configured secret.
Signed(ev) ==
    /\ Has(ev, "headers") /\ Has(ev["headers"], "x-exl-signature") /\ Has(ev, "body")
    /\ ev["headers"]["x-exl-signature"]
           = exl_signature(environ["ALMA_CHALLENGE_SECRET"], ev["body"])

\* The body is a JSON object with an action.
HasAction(ev) == ev["body"].json /\ Has(ev["body"].doc, "action")

IsJobEnd(ev) == HasAction(ev) /\ ev["body"].doc["action"] = "JOB_END"

HasJobName(ev) ==
    /\ Has(ev["body"].doc, "job_instance")
    /\ Has(ev["body"].doc["job_instance"], "name")

JobInstance(ev) == ev["body"].doc["job_instance"]

JobName(ev) == JobInstance(ev)["name"]

\* The workspace the module read at import occurs in the job name, in any case.
ForThisEnvironment(ev) ==
    \E a \in 1..(Len(JobName(ev)) + 1) : \E b \in 0..Len(JobName(ev)) :
        lower(SubSeq(JobName(ev), a, b)) = lower(str(env))

\* The configured prefix of job type t, set and not empty, starts the name.
PrefixKey(t) ==
    CASE t = "PPOD" -> "ALMA_POD_EXPORT_JOB_NAME"
      [] t = "TIMDEX" -> "ALMA_TIMDEX_EXPORT_JOB_NAME_PREFIX"
      [] OTHER -> "ALMA_BURSAR_EXPORT_JOB_NAME"

Matches(name, t) ==
    /\ Has(environ, PrefixKey(t))
    /\ environ[PrefixKey(t)] # <<>>
    /\ Len(environ[PrefixKey(t)]) <= Len(name)
    /\ \A k \in 1..Len(environ[PrefixKey(t)]) : name[k] = environ[PrefixKey(t)][k]

InitiatedBody(t) ==
    <<"Webhook POST request received and validated, ", t, " pipeline initiated.">>

Responded(i) == inv[i].pc = "done" /\ inv[i].response # NoResponse

(***************************************************************************)
(* C1.  In every invocation start_execution is called at most once, and    *)
(* only for a POST with a valid signature whose body is a JOB_END for this *)
(* workspace, of a job that get_job_type classified, that completed        *)
(* successfully and exported a non-zero number of records.  An invocation  *)
(* that responds with anything but "pipeline initiated" made no call.      *)
(***************************************************************************)
C1_CallOnlyAfterAllGates ==
    \A i \in Slots :
        /\ Len(inv[i].calls) <= 1
        /\ inv[i].calls # <<>> =>
               LET ev == inv[i].event
               IN  /\ IsPost(ev)
                   /\ Signed(ev)
                   /\ IsJobEnd(ev)
                   /\ HasJobName(ev)
                   /\ ForThisEnvironment(ev)
                   /\ \E t \in TypeNames : Matches(JobName(ev), t)
                   /\ inv[i].o.job_type \in TypeNames
                   /\ Has(JobInstance(ev), "status")
                   /\ JobInstance(ev)["status"]["value"] = "COMPLETED_SUCCESS"
                   /\ Has(JobInstance(ev), "counter")
                   /\ count_exported_records(JobInstance(ev)["counter"]).ok
                   /\ count_exported_records(JobInstance(ev)["counter"]).value # 0
        /\ (Responded(i)
                /\ inv[i].response["body"] \notin {InitiatedBody(t) : t \in TypeNames})
               => inv[i].calls = <<>>

\* An invocation called start_execution once and answered "pipeline initiated".
C1_Witness ==
    \E i \in Slots :
        /\ Responded(i)
        /\ Len(inv[i].calls) = 1
        /\ inv[i].response["body"] = InitiatedBody("TIMDEX")

\* The configured prefix of job type t starts the name when case is ignored,
\* as "PPOD Export to test" starts "PPOD Export to Test".
MatchesIgnoringCase(name, t) ==
    /\ Has(environ, PrefixKey(t))
    /\ environ[PrefixKey(t)] # <<>>
    /\ Len(environ[PrefixKey(t)]) <= Len(name)
    /\ \A k \in 1..Len(environ[PrefixKey(t)]) :
           LowerChar(name[k]) = LowerChar(environ[PrefixKey(t)][k])

ArnKey(t) ==
    CASE t = "PPOD" -> "PPOD_STATE_MACHINE_ARN"
      [] t = "TIMDEX" -> "TIMDEX_STATE_MACHINE_ARN"
      [] OTHER -> "BURSAR_STATE_MACHINE_ARN"

BuilderOf(t) ==
    CASE t = "PPOD" -> "generate_ppod_step_function_input"
      [] t = "TIMDEX" -> "generate_timdex_step_function_input"
      [] OTHER -> "generate_bursar_step_function_input"

\* The workspace is configured, and is the one the module read at import.
WorkspaceConfigured ==
    /\ Has(environ, "WORKSPACE") /\ environ["WORKSPACE"] # <<>>
    /\ env = Some(environ["WORKSPACE"])

\* A signed JOB_END POST for this workspace, of a job that completed
\* successfully with a non-zero record count and carries every field the
\* builders read.
Triggering(ev) ==
    /\ IsPost(ev) /\ Signed(ev) /\ IsJobEnd(ev) /\ HasJobName(ev)
    /\ WorkspaceConfigured
    /\ ForThisEnvironment(ev)
    /\ DOMAIN JobInstance(ev) = {"name", "status", "counter", "end_time", "id"}
    /\ JobInstance(ev)["status"]["value"] = "COMPLETED_SUCCESS"
    /\ count_exported_records(JobInstance(ev)["counter"]).ok
    /\ count_exported_records(JobInstance(ev)["counter"]).value # 0

\* The invocation in slot i called start_execution once, for job type t: with
\* t's state machine and what t's builder made; and it has responded only
\* after the call returned, with "t pipeline initiated".
Initiated(i, t) ==
    /\ Len(inv[i].calls) = 1
    /\ inv[i].calls[1].stateMachineArn = environ[ArnKey(t)]
    /\ \E now \in Clock :
           LET built == generate_step_function_input(
                            BuilderOf(t), inv[i].event["body"].doc, now)
           IN  /\ built.ok
               /\ inv[i].calls[1].input = built.value.input
               /\ inv[i].calls[1].name = built.value.name
    /\ inv[i].pc = "start_execution" => inv[i].response = NoResponse
    /\ Responded(i) =>
           /\ inv[i].o.trace[Len(inv[i].o.trace)] = "start_execution"
           /\ inv[i].response["statusCode"] = 200
           /\ inv[i].response["body"] = InitiatedBody(t)

(***************************************************************************)
(* C2.  A signed JOB_END POST whose job name contains the workspace and    *)
(* matches the configured name of a job type T - as the name "PPOD Export  *)
(* to Test" matches the configured "PPOD Export to test" -, with status    *)
(* COMPLETED_SUCCESS and a non-zero record count, makes the handler call   *)
(* start_execution exactly once, with T's state machine and the payload    *)
(* and execution name of T's builder, and respond 200 "T pipeline          *)
(* initiated." only after the call returned.                               *)
(***************************************************************************)
C2_MatchingJobInitiatesPipeline ==
    \A i \in Slots :
        (/\ inv[i].pc # "idle"
         /\ Triggering(inv[i].event)
         /\ \E t \in TypeNames : MatchesIgnoringCase(JobName(inv[i].event), t))
            => \E t \in TypeNames :
                   /\ MatchesIgnoringCase(JobName(inv[i].event), t)
                   /\ Initiated(i, t)

\* The same for a job name that starts with the configured name exactly.
C2_ExactPrefixInitiatesPipeline ==
    \A i \in Slots :
        (/\ inv[i].pc # "idle"
         /\ Triggering(inv[i].event)
         /\ \E t \in TypeNames : Matches(JobName(inv[i].event), t))
            => \E t \in TypeNames :
                   /\ Matches(JobName(inv[i].event), t)
                   /\ Initiated(i, t)

(***************************************************************************)
(* C3.  valid_signature returns true exactly when the request carries an   *)
(* x-exl-signature header whose value is the base64 text of the            *)
(* HMAC-SHA256 of the body as transmitted under the configured secret; it  *)
(* returns false for any other value, and false, without raising, when the *)
(* header or the headers mapping is absent.                                *)
(***************************************************************************)
C3_ValidSignatureIffBodyMac ==
    unit.fn = "valid_signature" =>
        LET event == unit.args[1]
            carries == Has(event, "headers")
                           /\ Has(event["headers"], "x-exl-signature")
        IN  /\ unit.ret.ok
            /\ unit.ret.value =
                   (/\ carries
                    /\ event["headers"]["x-exl-signature"] =
                           [b64 |-> [mac |-> "sha256",
                                     key |-> [bytes |-> environ["ALMA_CHALLENGE_SECRET"]],
                                     msg |-> [bytes |-> event["body"]]]])

\* valid_signature accepted a request whose body is not in json.dumps's layout.
C3_Witness ==
    /\ unit.fn = "valid_signature"
    /\ unit.ret = Ok(TRUE)
    /\ unit.args[1]["body"].json
    /\ unit.args[1]["body"].layout = "compact"

\* valid_signature rejected, without raising, a request without headers.
C3_WitnessNoHeaders ==
    /\ unit.fn = "valid_signature"
    /\ unit.ret = Ok(FALSE)
    /\ ~Has(unit.args[1], "headers")

\* lambda_handler got past its WORKSPACE check (line 39).
WorkspaceSet == Has(environ, "WORKSPACE") /\ environ["WORKSPACE"] # <<>>

\* The response of lambda_handler with the given status and body.
Response(statusCode, body) ==
    [k \in {"headers", "isBase64Encoded", "statusCode", "body"} |->
        CASE k = "headers" -> [h \in {"Content-Type"} |-> "text/plain"]
          [] k = "isBase64Encoded" -> FALSE
          [] k = "statusCode" -> statusCode
          [] OTHER -> body]

Unauthorized ==
    Response(401, <<"Unable to validate signature. Has the webhook challenge secret ",
                    "changed?">>)

\* The position of the first x in the sequence tr, 0 if there is none.
IndexOf(tr, x) ==
    IF \E k \in 1..Len(tr) : tr[k] = x
    THEN CHOOSE k \in 1..Len(tr) : tr[k] = x /\ \A j \in 1..(k - 1) : tr[j] # x
    ELSE 0

Did(i, x) == IndexOf(inv[i].o.trace, x) > 0

(***************************************************************************)
(* C4.  A POST whose signature check fails (a wrong or a missing           *)
(* x-exl-signature) is answered with status 401 and "Unable to validate    *)
(* signature. Has the webhook challenge secret changed?", and no           *)
(* start_execution call is made.                                           *)
(***************************************************************************)
C4_BadSignatureIs401 ==
    \A i \in Slots :
        (inv[i].pc # "idle" /\ WorkspaceSet /\ IsPost(inv[i].event)
             /\ ~Signed(inv[i].event))
            => /\ Responded(i)
               /\ inv[i].response["statusCode"] = 401
               /\ inv[i].response["body"] =
                      <<"Unable to validate signature. Has the webhook challenge secret ",
                        "changed?">>
               /\ inv[i].calls = <<>>

\* A POST without headers was answered 401.
C4_Witness ==
    \E i \in Slots :
        /\ Responded(i) /\ IsPost(inv[i].event)
        /\ ~Has(inv[i].event, "headers")
        /\ inv[i].response["statusCode"] = 401

(***************************************************************************)
(* C5.  The signature is verified before the body is parsed: json.loads    *)
(* runs only after valid_signature returned true.  So every POST with an   *)
(* invalid or missing signature has the same outcome, the 401 response,    *)
(* whatever its body holds (text that is no JSON, an object without        *)
(* action): no parse error, and nothing that depends on the body.          *)
(***************************************************************************)
C5_SignatureBeforeParsing ==
    \A i \in Slots :
        /\ Did(i, "json.loads") =>
               /\ Signed(inv[i].event)
               /\ Did(i, "valid_signature")
               /\ IndexOf(inv[i].o.trace, "valid_signature")
                      < IndexOf(inv[i].o.trace, "json.loads")
        /\ (inv[i].pc # "idle" /\ WorkspaceSet /\ IsPost(inv[i].event)
                /\ ~Signed(inv[i].event))
               => /\ inv[i].pc = "done"
                  /\ inv[i].error = ""
                  /\ inv[i].response = Unauthorized
                  /\ ~Did(i, "json.loads")

\* A POST with a wrong signature and a body that is no JSON was answered 401.
C5_Witness ==
    \E i \in Slots :
        /\ Responded(i) /\ IsPost(inv[i].event)
        /\ Has(inv[i].event, "headers")
        /\ Has(inv[i].event["headers"], "x-exl-signature")
        /\ ~inv[i].event["body"].json
        /\ inv[i].response = Unauthorized

(***************************************************************************)
(* C6.  A POST with a valid signature whose body's action is not JOB_END   *)
(* is answered with status 200 and "Webhook POST request received and      *)
(* validated, not a JOB_END webhook so no action was taken.", whatever its *)
(* job_instance is, and no start_execution call is made.                   *)
(***************************************************************************)
C6_OtherActionIs200NoAction ==
    \A i \in Slots :
        (inv[i].pc # "idle" /\ WorkspaceSet /\ IsPost(inv[i].event)
             /\ Signed(inv[i].event) /\ HasAction(inv[i].event)
             /\ ~IsJobEnd(inv[i].event))
            => /\ inv[i].response =
                      Response(200,
                          <<"Webhook POST request received and validated, not a JOB_END ",
                            "webhook so no action was taken.">>)
               /\ inv[i].calls = <<>>

\* A signed POST of another action, with a job_instance for this workspace,
\* was answered 200.
C6_Witness ==
    \E i \in Slots :
        /\ Responded(i) /\ IsPost(inv[i].event) /\ Signed(inv[i].event)
        /\ HasAction(inv[i].event) /\ ~IsJobEnd(inv[i].event)
        /\ HasJobName(inv[i].event) /\ JobName(inv[i].event) = <<"P", "t">>
        /\ inv[i].response["statusCode"] = 200

\* A signed JOB_END POST with a job name got to handle_job_end_webhook.
JobEndRequest(i) ==
    /\ inv[i].pc # "idle" /\ WorkspaceSet /\ IsPost(inv[i].event)
    /\ Signed(inv[i].event) /\ IsJobEnd(inv[i].event) /\ HasJobName(inv[i].event)

C7_WitnessUpperCase ==
    \E i \in Slots :
        /\ JobEndRequest(i)
        /\ JobName(inv[i].event) = <<"P", "T">>
        /\ env = Some(<<"t">>)
        /\ Did(i, "get_job_type")

C9_WitnessNameOnly ==
    \E i \in Slots :
        /\ JobEndRequest(i) /\ Responded(i)
        /\ ForThisEnvironment(inv[i].event)
        /\ \A t \in TypeNames : ~Matches(JobName(inv[i].event), t)
        /\ DOMAIN JobInstance(inv[i].event) = {"name"}

\* The place of job type t in the order get_job_type tests the types in.
Rank(t) == CASE t = "PPOD" -> 1 [] t = "TIMDEX" -> 2 [] OTHER -> 3

\* No type tested before t has a configured prefix the name starts with.
Reached(name, t) == \A u \in TypeNames : Rank(u) < Rank(t) => ~Matches(name, u)

(***************************************************************************)
(* C8.  get_job_type tests the configured prefixes in the order PPOD,      *)
(* TIMDEX, BURSAR with starts-with semantics and returns the first type    *)
(* whose configured prefix the job name starts with, together with that    *)
(* type's input builder; a name that starts with the prefixes of several   *)
(* types is classified as the earliest of them.                            *)
(***************************************************************************)
C8_FirstMatchingTypeInOrder ==
    unit.fn = "get_job_type" =>
        \A t \in TypeNames :
            (Matches(unit.args[1], t) /\ Reached(unit.args[1], t))
                => unit.ret.res = Ok([job_type |-> t, handler |-> BuilderOf(t)])

\* A name that starts with the prefixes of all three types came out as PPOD,
\* and one that starts with those of TIMDEX and BURSAR only as TIMDEX.
C8_Witness ==
    /\ unit.fn = "get_job_type"
    /\ \A t \in TypeNames : Matches(unit.args[1], t)
    /\ environ["ALMA_POD_EXPORT_JOB_NAME"] # environ["ALMA_BURSAR_EXPORT_JOB_NAME"]
    /\ unit.ret.res.ok /\ unit.ret.res.value.job_type = "PPOD"

C8_WitnessSecondOfTwo ==
    /\ unit.fn = "get_job_type"
    /\ ~Matches(unit.args[1], "PPOD")
    /\ Matches(unit.args[1], "TIMDEX") /\ Matches(unit.args[1], "BURSAR")
    /\ unit.ret.res.ok /\ unit.ret.res.value.job_type = "TIMDEX"

\* The variable with the prefix of job type t is unset or empty.
Skipped(t) == ~Has(environ, PrefixKey(t)) \/ environ[PrefixKey(t)] = <<>>

\* The invocation in slot i logged the warning that names t's variable.
Warned(i, t) ==
    \E k \in 1..Len(inv[i].o.log) :
        inv[i].o.log[k] =
            Log("WARNING", <<"Expected env var not present: ", PrefixKey(t)>>)

\* The invocation in slot i logged that it received a webhook of job type t.
ClassifiedAs(i, t) ==
    \E k \in 1..Len(inv[i].o.log) :
        inv[i].o.log[k] = Log("INFO", <<t \o " export job webhook received.">>)

C10_WitnessUnclassified ==
    \E i \in Slots :
        /\ JobEndRequest(i) /\ Responded(i)
        /\ \A t \in TypeNames : ~Has(environ, PrefixKey(t)) /\ Warned(i, t)
        /\ JobName(inv[i].event) = test_env["ALMA_POD_EXPORT_JOB_NAME"]
        /\ inv[i].response["statusCode"] = 200

\* The text a sequence of pieces of text stands for.
RECURSIVE Text(_)
Text(s) == IF s = <<>> THEN "" ELSE Head(s) \o Text(Tail(s))

\* get_job_type classifies the job of the request in slot i as type t.
Classified(i, t) ==
    /\ JobEndRequest(i) /\ ForThisEnvironment(inv[i].event)
    /\ Matches(JobName(inv[i].event), t) /\ Reached(JobName(inv[i].event), t)

\* The job of the request did not complete successfully.
Failed(ev) ==
    /\ Has(JobInstance(ev), "status") /\ Has(JobInstance(ev)["status"], "value")
    /\ JobInstance(ev)["status"]["value"] # "COMPLETED_SUCCESS"

(***************************************************************************)
(* C11.  A validated JOB_END POST for this workspace, classified as job    *)
(* type T, whose status is not COMPLETED_SUCCESS is answered with status   *)
(* 200 and "Webhook POST request received and validated, T export job      *)
(* failed so no action was taken.", whatever the counters are (also when   *)
(* counter is absent), and no start_execution call is made.                *)
(***************************************************************************)
C11_FailedJobNamesItsType ==
    \A i \in Slots : \A t \in TypeNames :
        (Classified(i, t) /\ Failed(inv[i].event))
            => /\ Responded(i)
               /\ inv[i].response["statusCode"] = 200
               /\ Text(inv[i].response["body"]) =
                      "Webhook POST request received and validated, " \o t
                          \o " export job failed so no action was taken."
               /\ inv[i].calls = <<>>

\* What the handler does answer: the same with the job's name in place of
\* its type.
C11_FailedJobNamesTheJob ==
    \A i \in Slots : \A t \in TypeNames :
        (Classified(i, t) /\ Failed(inv[i].event))
            => /\ Responded(i)
               /\ inv[i].response["statusCode"] = 200
               /\ Text(inv[i].response["body"]) =
                      "Webhook POST request received and validated, Alma job '"
                          \o Text(JobName(inv[i].event))
                          \o "' failed so no action was taken."
               /\ inv[i].calls = <<>>

\* A failed PPOD job without counter was answered.
C11_Reached ==
    \E i \in Slots :
        /\ Classified(i, "PPOD") /\ Failed(inv[i].event) /\ Responded(i)
        /\ ~Has(JobInstance(inv[i].event), "counter")

\* The job of the request completed successfully and its counter sums to zero.
ZeroRecords(ev) ==
    /\ Has(JobInstance(ev), "status") /\ Has(JobInstance(ev)["status"], "value")
    /\ JobInstance(ev)["status"]["value"] = "COMPLETED_SUCCESS"
    /\ Has(JobInstance(ev), "counter")
    /\ \A k \in 1..Len(JobInstance(ev)["counter"]) :
           JobInstance(ev)["counter"][k]["type"]["value"] \in exported_record_types
               => JobInstance(ev)["counter"][k]["value"] = <<"0">>

(***************************************************************************)
(* C12.  A validated JOB_END POST for this workspace, classified as job    *)
(* type T, with status COMPLETED_SUCCESS and recognized counter entries    *)
(* that sum to zero is answered with status 200 and "Webhook POST request  *)
(* received and validated, T export job exported zero records so no action *)
(* was taken.", and no start_execution call is made.                       *)
(***************************************************************************)
C12_ZeroRecordsNamesItsType ==
    \A i \in Slots : \A t \in TypeNames :
        (Classified(i, t) /\ ZeroRecords(inv[i].event))
            => /\ Responded(i)
               /\ inv[i].response["statusCode"] = 200
               /\ Text(inv[i].response["body"]) =
                      "Webhook POST request received and validated, " \o t
                          \o " export job exported zero records so no action was taken."
               /\ inv[i].calls = <<>>

\* What the handler does answer: the same with the job's name in place of
\* its type.
C12_ZeroRecordsNamesTheJob ==
    \A i \in Slots : \A t \in TypeNames :
        (Classified(i, t) /\ ZeroRecords(inv[i].event))
            => /\ Responded(i)
               /\ inv[i].response["statusCode"] = 200
               /\ Text(inv[i].response["body"]) =
                      "Webhook POST request received and validated, Alma job '"
                          \o Text(JobName(inv[i].event))
                          \o "' exported zero records so no action was taken."
               /\ inv[i].calls = <<>>

\* A TIMDEX job with one unrecognized counter entry was answered.
C12_Reached ==
    \E i \in Slots :
        /\ Classified(i, "TIMDEX") /\ ZeroRecords(inv[i].event) /\ Responded(i)
        /\ JobInstance(inv[i].event)["counter"][1]["type"]["value"]
               \notin exported_record_types

\* The number a counter entry's value is the decimal notation of.
NumberOf(value) ==
    CASE value = <<"0">> -> 0
      [] value = <<"1">> -> 1
      [] value = <<"1", "2">> -> 12

\* What an entry adds to the count of exported records.
Contribution(c) ==
    IF c["type"]["value"] \in
           {"label.new.records", "label.updated.records", "label.deleted.records",
            "com.exlibris.external.bursar.report.fines_fees_count"}
    THEN NumberOf(c["value"])
    ELSE 0

RECURSIVE SumOfContributions(_)
SumOfContributions(counter) ==
    IF counter = <<>> THEN 0
    ELSE Contribution(Head(counter)) + SumOfContributions(Tail(counter))

(***************************************************************************)
(* C13.  count_exported_records(counter) is the sum, over the entries      *)
(* whose type.value is label.new.records, label.updated.records,           *)
(* label.deleted.records or                                                *)
(* com.exlibris.external.bursar.report.fines_fees_count, of the entry's    *)
(* value read as an integer; entries of any other type add nothing         *)
(* whatever their value is, and the count of an empty sequence is 0.       *)
(***************************************************************************)
C13_CountIsSumOfRecognizedEntries ==
    unit.fn = "count_exported_records" =>
        /\ unit.ret = Ok(SumOfContributions(unit.args[1]))
        /\ unit.args[1] = <<>> => unit.ret = Ok(0)

\* A Bursar count of 12 next to an uncounted entry whose value is no number
\* gave 12; two counted entries gave their sum; the empty sequence was counted.
C13_Witness ==
    /\ unit.fn = "count_exported_records"
    /\ Len(unit.args[1]) = 2
    /\ unit.args[1][1] =
           CounterEntry("com.exlibris.external.bursar.report.fines_fees_count",
                        <<"1", "2">>)
    /\ unit.args[1][2] = CounterEntry("c.jobs.publishing.filtered_out", <<"n", "/", "a">>)
    /\ unit.ret = Ok(12)

C13_WitnessSum ==
    /\ unit.fn = "count_exported_records"
    /\ Len(unit.args[1]) = 2
    /\ unit.args[1][1] = CounterEntry("label.updated.records", <<"1", "2">>)
    /\ unit.args[1][2] = CounterEntry("label.deleted.records", <<"1">>)
    /\ unit.ret = Ok(13)

C13_WitnessEmpty ==
    /\ unit.fn = "count_exported_records"
    /\ unit.args[1] = <<>>
    /\ unit.ret = Ok(0)

\* The job of the request completed successfully and has no counter field.
SucceededWithoutCounter(ev) ==
    /\ Has(JobInstance(ev), "status") /\ Has(JobInstance(ev)["status"], "value")
    /\ JobInstance(ev)["status"]["value"] = "COMPLETED_SUCCESS"
    /\ ~Has(JobInstance(ev), "counter")

(***************************************************************************)
(* C14.  Counting does not fail on an absent counter: a validated,         *)
(* classified, successfully completed JOB_END event whose job_instance has *)
(* no counter field counts as one with an empty counter, so it ends with   *)
(* the 200 "exported zero records so no action was taken" response (with   *)
(* the job's type or the job's name in it) and not with an error.          *)
(***************************************************************************)
C14_AbsentCounterIsZeroRecords ==
    \A i \in Slots : \A t \in TypeNames :
        (Classified(i, t) /\ SucceededWithoutCounter(inv[i].event))
            => /\ inv[i].error = ""
               /\ Responded(i)
               /\ inv[i].response["statusCode"] = 200
               /\ Text(inv[i].response["body"]) \in
                      {"Webhook POST request received and validated, " \o t
                           \o " export job exported zero records so no action was taken.",
                       "Webhook POST request received and validated, Alma job '"
                           \o Text(JobName(inv[i].event))
                           \o "' exported zero records so no action was taken."}
               /\ inv[i].calls = <<>>

\* What the handler does: the invocation ends with a KeyError, without a
\* response and without a start_execution call.
C14_AbsentCounterRaisesKeyError ==
    \A i \in Slots : \A t \in TypeNames :
        (Classified(i, t) /\ SucceededWithoutCounter(inv[i].event))
            => /\ inv[i].pc = "done"
               /\ inv[i].error = "KeyError"
               /\ inv[i].response = NoResponse
               /\ inv[i].calls = <<>>

\* The first 10 characters of an end_time, as text.
JobDate(end_time) ==
    CASE end_time[4] = "2" -> (IF Len(end_time) < 10 THEN "2022-05" ELSE "2022-05-01")
      [] end_time[4] = "3" -> "2023-12-31"

\* The same with the hyphens removed.
JobDateCompact(end_time) ==
    CASE end_time[4] = "2" -> (IF Len(end_time) < 10 THEN "202205" ELSE "20220501")
      [] end_time[4] = "3" -> "20231231"

\* A reading of the clock in the format %Y-%m-%dt%H-%M-%S.
Timestamp(now) ==
    CASE now.year = 2022 -> (IF now.second = 0 THEN "2022-05-01t00-00-00"
                                               ELSE "2022-05-01t00-00-01")
      [] now.year = 2023 -> "2023-12-31t23-59-59"
      [] now.year = 2024 -> "2024-01-09t08-07-06"

\* The direct call in unit has a job_instance with end_time.
UnitHasEndTime == Has(unit.args[1]["job_instance"], "end_time")

UnitEndTime == unit.args[1]["job_instance"]["end_time"]

(***************************************************************************)
(* C15.  The PPOD builder returns the JSON payload                         *)
(* {"filename-prefix": "exlibris/pod/POD_ALMA_EXPORT_" + D}, D the first   *)
(* 10 characters of job_instance.end_time without their hyphens, and the   *)
(* execution name "ppod-upload-" followed by the current UTC time in the   *)
(* format %Y-%m-%dt%H-%M-%S: end_time 2022-05-01T14:55:14.894Z at          *)
(* 2022-05-01 00:00:00 gives POD_ALMA_EXPORT_20220501 and                  *)
(* ppod-upload-2022-05-01t00-00-00.                                        *)
(***************************************************************************)
C15_PpodInput ==
    (unit.fn = "generate_ppod_step_function_input" /\ UnitHasEndTime) =>
        /\ unit.ret.ok
        /\ unit.ret.value.input.json
        /\ DOMAIN unit.ret.value.input.doc = {"filename-prefix"}
        /\ Text(unit.ret.value.input.doc["filename-prefix"]) =
               "exlibris/pod/POD_ALMA_EXPORT_" \o JobDateCompact(UnitEndTime)
        /\ Text(unit.ret.value.name) = "ppod-upload-" \o Timestamp(unit.args[2])

\* The claim's example.
C15_Witness ==
    /\ unit.fn = "generate_ppod_step_function_input" /\ UnitHasEndTime
    /\ UnitEndTime = EndTime
    /\ unit.args[2] =
           [year |-> 2022, month |-> 5, day |-> 1, hour |-> 0, minute |-> 0, second |-> 0]
    /\ Text(unit.ret.value.input.doc["filename-prefix"]) =
           "exlibris/pod/POD_ALMA_EXPORT_20220501"
    /\ Text(unit.ret.value.name) = "ppod-upload-2022-05-01t00-00-00"

\* The last whitespace-delimited token of a job name, in lower case.
RunType(name) ==
    CASE name[1] = "T" -> "full"
      [] name[1] = "A" -> "daily"
      [] name[1] = "P" -> "pt"
      [] name[1] = "t" -> "p"

(***************************************************************************)
(* C16.  The TIMDEX builder returns the JSON payload {"next-step":         *)
(* "transform", "run-date": D, "run-type": R, "source": "alma", "verbose": *)
(* "true"}, D the first 10 characters of job_instance.end_time and R the   *)
(* last whitespace-delimited token of the job name in lower case ("FULL"   *)
(* gives "full", "DAILY" gives "daily"), and the execution name "alma-" R  *)
(* "-ingest-" followed by the current UTC timestamp.                       *)
(***************************************************************************)
C16_TimdexInput ==
    (/\ unit.fn = "generate_timdex_step_function_input" /\ UnitHasEndTime
     /\ unit.args[1]["job_instance"]["name"][1] # " ") =>
        LET doc == unit.ret.value.input.doc
            R == RunType(unit.args[1]["job_instance"]["name"])
        IN  /\ unit.ret.ok
            /\ unit.ret.value.input.json
            /\ DOMAIN doc = {"next-step", "run-date", "run-type", "source", "verbose"}
            /\ Text(doc["next-step"]) = "transform"
            /\ Text(doc["run-date"]) = JobDate(UnitEndTime)
            /\ Text(doc["run-type"]) = R
            /\ Text(doc["source"]) = "alma"
            /\ Text(doc["verbose"]) = "true"
            /\ Text(unit.ret.value.name) =
                   "alma-" \o R \o "-ingest-" \o Timestamp(unit.args[2])

\* A name ending in FULL gave run-type full, one ending in DAILY gave daily.
C16_Witness ==
    /\ unit.fn = "generate_timdex_step_function_input" /\ UnitHasEndTime
    /\ unit.args[1]["job_instance"]["name"][1] = "T"
    /\ unit.args[2].year = 2023
    /\ Text(unit.ret.value.input.doc["run-type"]) = "full"
    /\ Text(unit.ret.value.name) = "alma-full-ingest-2023-12-31t23-59-59"

C16_WitnessDaily ==
    /\ unit.fn = "generate_timdex_step_function_input" /\ UnitHasEndTime
    /\ unit.args[1]["job_instance"]["name"][1] = "A"
    /\ Text(unit.ret.value.input.doc["run-type"]) = "daily"
    /\ Text(unit.ret.value.input.doc["run-date"]) = "2022-05-01"

\* The job of the request completed successfully with a Bursar count that is
\* not zero, and has an id.
BursarJobDone(ev) ==
    /\ DOMAIN JobInstance(ev) = {"name", "status", "counter", "end_time", "id"}
    /\ JobInstance(ev)["status"]["value"] = "COMPLETED_SUCCESS"
    /\ \E k \in 1..Len(JobInstance(ev)["counter"]) :
           /\ JobInstance(ev)["counter"][k]["type"]["value"] =
                  "com.exlibris.external.bursar.report.fines_fees_count"
           /\ JobInstance(ev)["counter"][k]["value"] = <<"1">>

Dispatched(i) ==
    /\ inv[i].pc # "idle" /\ WorkspaceSet
    /\ Has(inv[i].event, "requestContext")

(***************************************************************************)
(* C18.  For every request whose HTTP method is neither GET nor POST       *)
(* lambda_handler returns status 405 with the body "HTTP method {method}   *)
(* not allowed. Supported methods: GET, POST.", {method} the request's     *)
(* method, without checking a signature, reading the body or calling the   *)
(* orchestrator.                                                           *)
(***************************************************************************)
C18_OtherMethodIs405 ==
    \A i \in Slots :
        (Dispatched(i) /\ Method(inv[i].event) \notin {"GET", "POST"}) =>
            /\ Responded(i)
            /\ inv[i].error = ""
            /\ DOMAIN inv[i].response = {"headers", "isBase64Encoded", "statusCode", "body"}
            /\ inv[i].response["statusCode"] = 405
            /\ Text(inv[i].response["body"]) =
                   "HTTP method " \o Method(inv[i].event)
                       \o " not allowed. Supported methods: GET, POST."
            /\ inv[i].o.trace = <<>>
            /\ inv[i].calls = <<>>

\* A DELETE request with a validly signed JOB_END body was answered 405.
C18_Witness ==
    \E i \in Slots :
        /\ Dispatched(i) /\ Responded(i)
        /\ Method(inv[i].event) = "DELETE"
        /\ Signed(inv[i].event)
        /\ Text(inv[i].response["body"]) =
               "HTTP method DELETE not allowed. Supported methods: GET, POST."

IsGet(ev) == Has(ev, "requestContext") /\ Method(ev) = "GET"

HasChallenge(ev) ==
    Has(ev, "queryStringParameters") /\ Has(ev["queryStringParameters"], "challenge")

(***************************************************************************)
(* C19.  A GET request with the query parameter challenge is answered with *)
(* status 200 and the challenge value, verbatim, as body (any string,      *)
(* special characters included); one without it (no challenge key, or no   *)
(* query parameters at all) with status 400 and "Malformed request,        *)
(* 'challenge' query parameter required.".  In both cases no signature is  *)
(* required and start_execution is not called.                             *)
(***************************************************************************)
C19_GetEchoesChallenge ==
    \A i \in Slots :
        (Dispatched(i) /\ IsGet(inv[i].event)) =>
            /\ Responded(i)
            /\ inv[i].error = ""
            /\ IF HasChallenge(inv[i].event)
               THEN /\ inv[i].response["statusCode"] = 200
                    /\ inv[i].response["body"] =
                           inv[i].event["queryStringParameters"]["challenge"]
               ELSE /\ inv[i].response["statusCode"] = 400
                    /\ Text(inv[i].response["body"]) =
                           "Malformed request, 'challenge' query parameter required."
            /\ inv[i].o.trace = <<"handle_get_request">>
            /\ inv[i].calls = <<>>

\* A challenge with special characters was echoed; the empty challenge was
\* echoed; a request with other query parameters only, and one with none,
\* were answered 400.
C19_Witness ==
    \E i \in Slots :
        /\ Dispatched(i) /\ IsGet(inv[i].event) /\ Responded(i)
        /\ HasChallenge(inv[i].event)
        /\ ~Has(inv[i].event, "headers")
        /\ inv[i].response["body"] = <<"h", "&", "=", "%", " ">>
        /\ inv[i].response["statusCode"] = 200

C19_WitnessEmptyChallenge ==
    \E i \in Slots :
        /\ Dispatched(i) /\ IsGet(inv[i].event) /\ Responded(i)
        /\ HasChallenge(inv[i].event)
        /\ inv[i].event["queryStringParameters"]["challenge"] = <<>>
        /\ inv[i].response["statusCode"] = 200

C19_WitnessOtherParameter ==
    \E i \in Slots :
        /\ Dispatched(i) /\ IsGet(inv[i].event) /\ Responded(i)
        /\ Has(inv[i].event, "queryStringParameters")
        /\ ~HasChallenge(inv[i].event)
        /\ inv[i].response["statusCode"] = 400

C19_WitnessNoParameters ==
    \E i \in Slots :
        /\ Dispatched(i) /\ IsGet(inv[i].event) /\ Responded(i)
        /\ ~Has(inv[i].event, "queryStringParameters")
        /\ inv[i].response["statusCode"] = 400

\* r is a Response: the envelope and the two fields a handler sets.
IsResponse(r) ==
    /\ DOMAIN r = {"headers", "isBase64Encoded", "statusCode", "body"}
    /\ DOMAIN r["headers"] = {"Content-Type"}
    /\ r["headers"]["Content-Type"] = "text/plain"
    /\ r["isBase64Encoded"] = FALSE

(***************************************************************************)
(* C20, as stated.  Every code path of lambda_handler produces exactly one *)
(* Response, with the four fields headers = {Content-Type: text/plain},    *)
(* isBase64Encoded = false, statusCode and body, the last two as the GET,  *)
(* POST or invalid-method handler set them.                                *)
(***************************************************************************)
C20_EveryPathProducesAResponse ==
    \A i \in Slots :
        inv[i].pc = "done" =>
            /\ IsResponse(inv[i].response)
            /\ inv[i].response["statusCode"] = inv[i].o.result["statusCode"]
            /\ inv[i].response["body"] = inv[i].o.result["body"]

(***************************************************************************)
(* C20, amended.  Every invocation of lambda_handler that returns produces *)
(* exactly one Response, at its end and not before, with the four fields   *)
(* headers = {Content-Type: text/plain}, isBase64Encoded = false,          *)
(* statusCode and body, the last two as the GET, POST or invalid-method    *)
(* handler set them and the first two as lambda_handler set them; an       *)
(* invocation that ends with an error produces no Response.                *)
(***************************************************************************)
C20_EveryReturnIsOneResponse ==
    \A i \in Slots :
        /\ (inv[i].pc = "done" /\ inv[i].error = "") =>
               /\ IsResponse(inv[i].response)
               /\ inv[i].response["statusCode"] = inv[i].o.result["statusCode"]
               /\ inv[i].response["body"] = inv[i].o.result["body"]
        /\ (inv[i].pc = "done" /\ inv[i].error # "") => inv[i].response = NoResponse
        /\ inv[i].pc \in {"idle", "start_execution"} => inv[i].response = NoResponse

\* A POST came back from start_execution and was answered 200; a request was
\* answered 405; an invocation ended with an error.
C20_Witness ==
    \E i \in Slots :
        /\ inv[i].pc = "done" /\ inv[i].error = ""
        /\ Len(inv[i].calls) = 1
        /\ IsResponse(inv[i].response)
        /\ inv[i].response["statusCode"] = 200

C20_Witness405 ==
    \E i \in Slots :
        /\ inv[i].pc = "done" /\ inv[i].error = ""
        /\ IsResponse(inv[i].response)
        /\ inv[i].response["statusCode"] = 405

C20_WitnessError ==
    \E i \in Slots :
        /\ inv[i].pc = "done" /\ inv[i].error = "ClientError"
        /\ inv[i].response = NoResponse

(***************************************************************************)
(* C21.  The status codes keep request faults and business outcomes apart: *)
(* every response has status 200, 400, 401 or 405; 400 is returned only    *)
(* for a GET without challenge, 401 only for a POST whose signature check  *)
(* failed, 405 only for a method other than GET and POST; a POST gets 200  *)
(* only if its signature was valid, and every outcome of a POST with a     *)
(* valid signature that is answered - the five without action and the      *)
(* initiated pipeline - is answered 200.                                   *)
(***************************************************************************)
C21_StatusCodeClasses ==
    \A i \in Slots :
        Responded(i) =>
            LET ev == inv[i].event
                status == inv[i].response["statusCode"]
            IN  /\ status \in {200, 400, 401, 405}
                /\ status = 400 => (IsGet(ev) /\ ~HasChallenge(ev))
                /\ status = 401 => (IsPost(ev) /\ ~Signed(ev))
                /\ status = 405 => Method(ev) \notin {"GET", "POST"}
                /\ IsPost(ev) => (status = 200 <=> Signed(ev))

\* The no-action outcomes and the initiated pipeline were each answered 200.
C21_Witness ==
    \E i \in Slots : \E t \in TypeNames :
        /\ Responded(i) /\ Classified(i, t) /\ Failed(inv[i].event)
        /\ inv[i].response["statusCode"] = 200

C21_WitnessOtherAction ==
    \E i \in Slots :
        /\ Responded(i) /\ IsPost(inv[i].event) /\ Signed(inv[i].event)
        /\ HasAction(inv[i].event) /\ ~IsJobEnd(inv[i].event)
        /\ inv[i].response["statusCode"] = 200

C21_WitnessOtherEnvironment ==
    \E i \in Slots :
        /\ Responded(i) /\ JobEndRequest(i) /\ ~ForThisEnvironment(inv[i].event)
        /\ inv[i].response["statusCode"] = 200

C21_WitnessUnclassified ==
    \E i \in Slots :
        /\ Responded(i) /\ JobEndRequest(i) /\ ForThisEnvironment(inv[i].event)
        /\ \A t \in TypeNames : ~Matches(JobName(inv[i].event), t)
        /\ inv[i].response["statusCode"] = 200

C21_WitnessZeroRecords ==
    \E i \in Slots : \E t \in TypeNames :
        /\ Responded(i) /\ Classified(i, t) /\ ZeroRecords(inv[i].event)
        /\ inv[i].response["statusCode"] = 200

C21_WitnessInitiated ==
    \E i \in Slots :
        /\ Responded(i) /\ Len(inv[i].calls) = 1
        /\ inv[i].response["statusCode"] = 200

\* How often x occurs in the sequence tr.
Occurrences(tr, x) == Cardinality({k \in 1..Len(tr) : tr[k] = x})

(***************************************************************************)
(* C22.  A failure of the start_execution call is neither retried nor      *)
(* turned into a response: start_execution is attempted exactly once, its  *)
(* error leaves lambda_handler unhandled, and the invocation returns no    *)
(* Response, in particular no 200 "pipeline initiated".                    *)
(***************************************************************************)
C22_OrchestratorFailurePropagates ==
    \A i \in Slots :
        inv[i].answer = Err("ClientError") =>
            /\ inv[i].pc = "done"
            /\ Len(inv[i].calls) = 1
            /\ Occurrences(inv[i].o.trace, "start_execution") = 1
            /\ inv[i].error = "ClientError"
            /\ inv[i].response = NoResponse

\* start_execution failed for a TIMDEX job.
C22_Witness ==
    \E i \in Slots :
        /\ inv[i].answer = Err("ClientError")
        /\ Classified(i, "TIMDEX")
        /\ inv[i].error = "ClientError"

\* The invocation in slot i failed with the error of the WORKSPACE check.
FailedForWorkspace(i) ==
    /\ inv[i].pc = "done"
    /\ inv[i].error = "RuntimeError: Required env variable WORKSPACE is not set"
    /\ inv[i].response = NoResponse

(***************************************************************************)
(* C23.  If WORKSPACE is absent when lambda_handler is invoked, the        *)
(* invocation fails with the error "Required env variable WORKSPACE is not *)
(* set" before the HTTP method is looked at, for every request (GET, POST  *)
(* or other, well-formed or not); it returns no Response and makes no      *)
(* start_execution call.                                                   *)
(***************************************************************************)
C23_MissingWorkspaceIsFatal ==
    \A i \in Slots :
        (inv[i].pc # "idle" /\ ~Has(environ, "WORKSPACE")) =>
            /\ FailedForWorkspace(i)
            /\ inv[i].o.trace = <<>>
            /\ inv[i].calls = <<>>

\* An event without a request context failed for WORKSPACE and not for its
\* method; so did a signed, triggering POST, in a process that had read
\* WORKSPACE at import.
C23_Witness ==
    \E i \in Slots :
        /\ inv[i].pc # "idle" /\ ~Has(environ, "WORKSPACE")
        /\ ~Has(inv[i].event, "requestContext")
        /\ FailedForWorkspace(i)

C23_WitnessTriggering ==
    \E i \in Slots :
        /\ inv[i].pc # "idle" /\ ~Has(environ, "WORKSPACE")
        /\ env = Some(<<"t">>)
        /\ IsPost(inv[i].event) /\ Signed(inv[i].event) /\ IsJobEnd(inv[i].event)
        /\ HasJobName(inv[i].event) /\ JobName(inv[i].event) = <<"P", "t">>
        /\ DOMAIN JobInstance(inv[i].event) = {"name", "status", "counter", "end_time", "id"}
        /\ FailedForWorkspace(i)

(***************************************************************************)
(* C24, as stated.  Configuration is loaded once at startup and does not   *)
(* change while the process lives: a later change of the process           *)
(* environment changes no invocation, and the values one invocation uses   *)
(* come from one startup snapshot - the workspace of the environment gate  *)
(* is the one the WORKSPACE check has checked.  Stated on the workspace,   *)
(* the one value the module keeps from its import: an invocation of a      *)
(* process that read a workspace at import does not fail for a missing     *)
(* WORKSPACE, and an invocation that gets past the check is gated by the   *)
(* value that was checked.                                                 *)
(***************************************************************************)
C24_ConfigurationIsStartupSnapshot ==
    \A i \in Slots :
        inv[i].pc # "idle" =>
            /\ truthy(env) => ~FailedForWorkspace(i)
            /\ WorkspaceSet => env = Some(environ["WORKSPACE"])

(***************************************************************************)
(* C24, amended.  Only the workspace of the environment gate is read once, *)
(* at import, and stays as it is until the module is imported again.  The  *)
(* WORKSPACE check and the job-name prefixes are read from the process     *)
(* environment by each invocation: an invocation fails for WORKSPACE       *)
(* exactly if it is missing then, whatever was read at import; a job is    *)
(* let through the gate exactly if its name holds the workspace read at    *)
(* import, whatever WORKSPACE is then; and it is classified by the         *)
(* prefixes as they are then.                                              *)
(***************************************************************************)
C24_OnlyGateWorkspaceIsFromStartup ==
    \A i \in Slots :
        inv[i].pc # "idle" =>
            /\ FailedForWorkspace(i) <=> ~WorkspaceSet
            /\ JobEndRequest(i) =>
                   /\ Did(i, "get_job_type") <=> ForThisEnvironment(inv[i].event)
                   /\ \A t \in TypeNames :
                          ClassifiedAs(i, t) <=> Classified(i, t)

\* A process that read the workspace "t" at import and runs with WORKSPACE
\* "P" let a job for "t" through the gate and classified it; a process that
\* read "t" ran without WORKSPACE and failed.
C24_Witness ==
    \E i \in Slots :
        /\ JobEndRequest(i)
        /\ env = Some(<<"t">>) /\ environ["WORKSPACE"] = <<"P">>
        /\ JobName(inv[i].event) = <<"P", "t">>
        /\ ~Has(environ, "ALMA_POD_EXPORT_JOB_NAME")
        /\ ClassifiedAs(i, "TIMDEX")

C24_WitnessUnsetLater ==
    \E i \in Slots :
        /\ inv[i].pc # "idle"
        /\ env = Some(<<"t">>) /\ ~Has(environ, "WORKSPACE")
        /\ FailedForWorkspace(i)

\* lambda_handler on the event alone: the orchestrator has no execution and
\* starts the one asked for.
RunAlone(event, now) ==
    LET o == lambda_handler(event, environ, env, now)
    IN  IF o.kind = "call" THEN after_start_execution(o, Ok("executionArn")) ELSE o

\* What the runtime gets from an invocation that ended with outcome o.
ResponseOf(o) ==
    IF o.kind = "return" THEN merge(base_response, o.result) ELSE NoResponse

\* start_execution has told slot i that the execution name is taken.
Collided(slot) == slot.answer = Err("ExecutionAlreadyExists")

\* Slot i makes the call lambda_handler makes on its event when run alone,
\* and no other; it ends as when run alone unless the name of its call was
\* taken, and then with the orchestrator's error and no response.
AsWhenRunAlone(i) ==
    \E now \in Clock :
        LET first == lambda_handler(inv[i].event, environ, env, now)
            alone == RunAlone(inv[i].event, now)
        IN  /\ inv[i].calls = IF first.kind = "call" THEN <<first.call>> ELSE <<>>
            /\ inv[i].pc = "done" =>
                   IF Collided(inv[i])
                   THEN /\ first.kind = "call"
                        /\ inv[i].response = NoResponse
                        /\ inv[i].error = "ExecutionAlreadyExists"
                   ELSE /\ inv[i].response = ResponseOf(alone)
                        /\ inv[i].error = alone.error

\* A step of one invocation leaves the environment, the module and the other
\* invocation as they are; start_execution fails exactly if the name of the
\* call is the name of an execution that has not terminated, and a call that
\* fails leaves the executions as they are.
IndependentStep ==
    /\ environ' = environ /\ env' = env
    /\ \A i \in Slots :
           inv'[i] # inv[i] =>
               /\ \A j \in Slots \ {i} : inv'[j] = inv[j]
               /\ (inv[i].pc = "start_execution") =>
                      /\ Collided(inv'[i]) <=> NameTaken(executions, inv[i].calls[1])
                      /\ Collided(inv'[i]) => executions' = executions
                      /\ ~Collided(inv'[i]) =>
                             executions' = executions \cup {Execution(inv[i].calls[1])}

C25_WitnessSameSecond ==
    /\ inv[1].pc = "done" /\ inv[2].pc = "done"
    /\ inv[1].event = inv[2].event
    /\ inv[1].o.job_type = "PPOD"
    /\ Len(inv[1].calls) = 1 /\ inv[1].calls = inv[2].calls
    /\ inv[1].answer = Ok("executionArn") /\ Collided(inv[2])

\* Two deliveries of the same TIMDEX job end in different seconds: both
\* executions are started.
C25_WitnessOtherSecond ==
    /\ inv[1].pc = "done" /\ inv[2].pc = "done"
    /\ inv[1].event = inv[2].event
    /\ inv[1].o.job_type = "TIMDEX"
    /\ Len(inv[1].calls) = 1 /\ Len(inv[2].calls) = 1
    /\ inv[1].calls[1].name # inv[2].calls[1].name
    /\ inv[1].answer = Ok("executionArn") /\ inv[2].answer = Ok("executionArn")
    /\ inv[1].response = inv[2].response

\* The same BURSAR job end delivered again after the first execution has
\* terminated: the second execution is started.
C25_WitnessAfterTermination ==
    /\ inv[1].pc = "done" /\ inv[2].pc = "done"
    /\ inv[1].event = inv[2].event
    /\ inv[1].calls = inv[2].calls /\ Len(inv[1].calls) = 1
    /\ inv[1].calls[1].name = <<"bursar">>
    /\ inv[1].answer = Ok("executionArn") /\ inv[2].answer = Ok("executionArn")

====
